---- MODULE Spec2Model ----
(***************************************************************************)
(* Amazing Marvin MCP: the task aggregation and query reconciliation tools *)
(* (query_tasks, get_all_tasks, get_child_tasks) and the API client they   *)
(* use (MarvinAPIClient), over a small upstream world of documents.        *)
(*                                                                         *)
(* Python values: None is the string NoneStr, "" is the empty string, a    *)
(* dict is a function whose DOMAIN is its key set (<<>> is the empty       *)
(* dict), an optional list is NoneList or [list |-> <<...>>].               *)
(***************************************************************************)
EXTENDS Integers, Sequences, FiniteSets, TLC

VARIABLES
    world,      \* upstream: parentId of each container document
    extra,      \* upstream: the number of further tasks in the inbox
    tool,       \* the tool invocation in progress, or "idle"
    pc,         \* position inside the handler
    client,     \* the MarvinAPIClient built by create_api_client()
    req,        \* the handler's parameters
    label_id,   \* query_tasks: identifier of the matched label
    api_calls,  \* the handler's upstream call counter
    calls,      \* every upstream request sent in this invocation, in order
    work,       \* traversal: documents still to visit (recursion order);
                \* range summary: dates still to fetch
    visited,    \* traversal: container identifiers already visited
    acc,        \* traversal: accumulated task documents;
                \* create_task: the created task as the handler holds it
    daily,      \* range summary: the per-day entries gathered so far
    result,     \* the response handed to the caller
    prev,       \* what the caller kept of the previous response, if it asks again
    frames,     \* concurrent invocations: the handlers' local variables
    running     \* concurrent invocations: request, position and response of each

vars == <<world, extra, tool, pc, client, req, label_id, api_calls, calls,
          work, visited, acc, daily, result, prev, frames, running>>

----------------------------------------------------------------------------
(* Bounds *)

\* At most this many filter groups are supplied in one query_tasks request.
MaxFilters == 2

\* The number of inbox tasks of an account that holds more tasks than one
\* store query returns.
ManyTasks == 503

\* At most this many identifiers are handed to batch_mark_done at once.
MaxBatch == 3

\* No traversal sends more than this many children requests.
MaxCalls == 4

\* At most this many per-day fetches of one range summary fail.
MaxDayFailures == 1

----------------------------------------------------------------------------
(* Python helpers *)

NoneStr == "<None>"
NoneList == [none |-> TRUE]
ListOf(s) == [list |-> s]
NoneInt == [none |-> TRUE]
IntOf(n) == [int |-> n]

\* Truthiness of an optional string: None and "" are falsy.
Truthy(s) == s /= NoneStr /\ s /= ""

\* Truthiness of an optional integer: None and 0 are falsy.
TruthyInt(n) == n /= NoneInt /\ n.int /= 0

\* Truthiness of an optional list: None and [] are falsy.
TruthyList(l) == l /= NoneList /\ Len(l.list) > 0

Range(s) == {s[i] : i \in 1..Len(s)}

Restrict(f, S) == [k \in (DOMAIN f) \cap S |-> f[k]]

\* The characters of the strings the model uses.
Spell(s) ==
    CASE s = "" -> <<>>
      [] s = "Work" -> <<"W", "o", "r", "k">>
      [] s = "work" -> <<"w", "o", "r", "k">>
      [] s = "WORK" -> <<"W", "O", "R", "K">>
      [] s = "home" -> <<"h", "o", "m", "e">>
      [] s = "Milk" -> <<"M", "i", "l", "k">>
      [] s = "MILK" -> <<"M", "I", "L", "K">>
      [] s = "abc" -> <<"a", "b", "c">>
      [] s = "a.c" -> <<"a", ".", "c">>

LowerChar(ch) ==
    CASE ch = "W" -> "w" [] ch = "O" -> "o" [] ch = "R" -> "r"
      [] ch = "K" -> "k" [] ch = "M" -> "m" [] ch = "I" -> "i"
      [] ch = "L" -> "l"
      [] OTHER -> ch

\* str.lower()
lower(chars) == [i \in 1..Len(chars) |-> LowerChar(chars[i])]

----------------------------------------------------------------------------
(* Upstream world *)

Containers == {"c1", "c2"}
Tasks == {"t1", "t2", "t3"}
DocOrder == <<"t1", "c1", "t2", "t3", "c2">>
Unassigned == "unassigned"
DateA == "2024-01-01"
DateB == "2024-01-02"
DateC == "2024-01-03"

\* The calendar days the model knows, oldest first; the last one is today.
Calendar ==
    <<"2023-12-28", "2023-12-29", "2023-12-30", "2023-12-31",
      "2024-01-01", "2024-01-02", "2024-01-03">>

Today == "2024-01-03"

\* datetime.strptime(d, "%Y-%m-%d"), as a day number, and strftime back.
DayNo(d) == CHOOSE i \in 1..Len(Calendar) : Calendar[i] = d
DateOf(n) == Calendar[n]

\* Lexicographic order of the ISO date strings.
DateRank(d) == CASE d = DateA -> 1 [] d = DateB -> 2 [] d = DateC -> 3

Worlds == [Containers -> Containers \cup {Unassigned}]

\* The further inbox tasks an account may hold: none, or many.
ExtraCounts == {0, ManyTasks}

\* The identifiers of the further inbox tasks, in storage order.
ExtraIds(n) == [i \in 1..n |-> "x" \o ToString(i)]

\* All stored documents, in storage order.
AllDocs(n) == DocOrder \o ExtraIds(n)

\* The labels the /labels endpoint returns, in order.
Labels ==
    << [_id |-> "l1", title |-> "Work"],
       [_id |-> "l2", title |-> "work"],
       [_id |-> "l3"] >>

\* The stored document with identifier d in world w.
Doc(w, d) ==
    CASE d = "c1" ->
           [_id |-> "c1", db |-> "Categories", type |-> "category",
            title |-> "home", parentId |-> w["c1"], done |-> FALSE]
      [] d = "c2" ->
           [_id |-> "c2", db |-> "Tasks", type |-> "project",
            title |-> "Work", parentId |-> w["c2"], done |-> FALSE,
            labelIds |-> <<"l1">>, dueDate |-> DateB, day |-> DateB,
            isStarred |-> 1, note |-> "Milk"]
      [] d = "t1" ->
           [_id |-> "t1", db |-> "Tasks", title |-> "Milk", note |-> "",
            parentId |-> "c1", done |-> FALSE, labelIds |-> <<"l1">>,
            dueDate |-> DateB, day |-> DateA, isStarred |-> 1]
      [] d = "t2" ->
           [_id |-> "t2", db |-> "Tasks", title |-> "abc", note |-> "a.c",
            parentId |-> "c2", done |-> FALSE, labelIds |-> <<"l1", "l2">>,
            dueDate |-> DateA, day |-> DateB, isStarred |-> 0]
      [] d = "t3" ->
           [_id |-> "t3", db |-> "Tasks", title |-> "abc", note |-> "",
            parentId |-> "c2", done |-> TRUE, labelIds |-> <<>>,
            dueDate |-> DateC, day |-> DateC, isStarred |-> 0]
      [] OTHER ->
           [_id |-> d, db |-> "Tasks", title |-> "home", note |-> "",
            parentId |-> Unassigned, done |-> FALSE, labelIds |-> <<>>,
            isStarred |-> 0]

\* The items the /doneItems endpoint returns for a date.
DoneItems(date) ==
    CASE date = "2023-12-31" ->
           << [_id |-> "d8", parentId |-> "c1", done |-> TRUE],
              [_id |-> "d9", parentId |-> "c2", done |-> TRUE],
              [_id |-> "d10", parentId |-> "unassigned", done |-> TRUE] >>
      [] date = DateA ->
           << [_id |-> "d1", parentId |-> "c1", done |-> TRUE] >>
      [] date = DateB ->
           << [_id |-> "d2", done |-> TRUE],
              [_id |-> "d3", parentId |-> NoneStr, done |-> TRUE] >>
      [] date = DateC ->
           << [_id |-> "d4", parentId |-> "unassigned", done |-> TRUE],
              [_id |-> "d5", parentId |-> "c2", done |-> TRUE],
              [_id |-> "d6", parentId |-> "c2", done |-> TRUE],
              [_id |-> "d7", parentId |-> "", done |-> TRUE] >>
      [] OTHER -> <<>>

\* A document that carries a container type discriminator.
IsContainerType(d) == "type" \in DOMAIN d /\ d.type \in {"project", "category"}

IsContainerDoc(w, id) ==
    id \in Containers /\ Doc(w, id).type \in {"project", "category"}

----------------------------------------------------------------------------
(* The document store's _find endpoint (Mango selectors) *)

\* A selector clause is [lit |-> v] (implicit equality) or [ops |-> d] with d
\* a dict from operator to argument; "$or" holds [alts |-> <<selector, ...>>].
Lit(v) == [lit |-> v]
Ops(d) == [ops |-> d]

RegexSpecial == {".", "^", "$", "*", "+", "?", "(", ")", "[", "]", "{", "}",
                 "|", "\\"}

\* The atoms of a pattern body: "\c" is the literal c, "." is any character.
RECURSIVE ParseAtoms(_)
ParseAtoms(p) ==
    IF Len(p) = 0 THEN <<>>
    ELSE IF p[1] = "\\" /\ Len(p) >= 2
         THEN <<[kind |-> "lit", ch |-> p[2]]>> \o ParseAtoms(SubSeq(p, 3, Len(p)))
         ELSE IF p[1] = "."
              THEN <<[kind |-> "any", ch |-> "."]>> \o ParseAtoms(Tail(p))
              ELSE <<[kind |-> "lit", ch |-> p[1]]>> \o ParseAtoms(Tail(p))

FlagI == <<"(", "?", "i", ")">>

\* Unanchored search of pattern p in text, honouring a leading (?i).
RegexSearch(p, text) ==
    LET ci == Len(p) >= 4 /\ SubSeq(p, 1, 4) = FlagI
        atoms == ParseAtoms(IF ci THEN SubSeq(p, 5, Len(p)) ELSE p)
        Hit(a, ch) ==
            \/ a.kind = "any"
            \/ IF ci THEN LowerChar(a.ch) = LowerChar(ch) ELSE a.ch = ch
    IN \E start \in 1..(Len(text) + 1) :
          \A j \in 1..Len(atoms) :
              /\ start + j - 1 <= Len(text)
              /\ Hit(atoms[j], text[start + j - 1])

OpHolds(op, arg, val) ==
    CASE op = "$eq" -> val = arg
      [] op = "$ne" -> val /= arg
      [] op = "$gte" -> DateRank(val) >= DateRank(arg)
      [] op = "$lte" -> DateRank(val) <= DateRank(arg)
      [] op = "$regex" -> RegexSearch(arg, Spell(val))
      [] op = "$elemMatch" ->
           \E i \in 1..Len(val) :
               \A o \in DOMAIN arg.ops : o = "$eq" /\ val[i] = arg.ops[o]

\* A missing field matches no condition.
MatchField(k, cond, doc) ==
    /\ k \in DOMAIN doc
    /\ IF "lit" \in DOMAIN cond
       THEN doc[k] = cond.lit
       ELSE \A op \in DOMAIN cond.ops : OpHolds(op, cond.ops[op], doc[k])

MatchFlat(sel, doc) == \A k \in DOMAIN sel : MatchField(k, sel[k], doc)

Match(sel, doc) ==
    \A k \in DOMAIN sel :
        IF k = "$or"
        THEN \E i \in 1..Len(sel[k].alts) : MatchFlat(sel[k].alts[i], doc)
        ELSE MatchField(k, sel[k], doc)

\* The docs of the _find response: the matching documents, at most
\* body.limit of them, each cut down to body.fields when that is given.
StoreFind(w, body) ==
    LET hits == SelectSeq(AllDocs(extra), LAMBDA d : Match(body.selector, Doc(w, d)))
        kept == SubSeq(hits, 1, IF Len(hits) < body.limit THEN Len(hits) ELSE body.limit)
    IN [i \in 1..Len(kept) |->
           IF "fields" \in DOMAIN body
           THEN Restrict(Doc(w, kept[i]), body.fields)
           ELSE Doc(w, kept[i])]

\* The children endpoint: the documents whose parentId is the given one.
StoreChildren(w, parent_id) ==
    LET ids == SelectSeq(AllDocs(extra), LAMBDA d : Doc(w, d).parentId = parent_id)
    IN [i \in 1..Len(ids) |-> Doc(w, ids[i])]

----------------------------------------------------------------------------
(* MarvinAPIClient *)

DefaultLimit == 500

\* The call counts the handlers report when the result carries none.
EstimatedCalls == 5
EstimatedRecursiveCalls == 3

SettingNames == {"db_uri", "db_name", "db_user", "db_password"}

\* The store settings the environment may hold ("" is the default: unset).
SettingsSet ==
    [db_uri : {"", "https://db/"}, db_name : {"", "marvin"},
     db_user : {"", "user"}, db_password : {"", "secret"}]

\* The store settings left at their defaults.
DefaultSettings ==
    [db_uri |-> "", db_name |-> "", db_user |-> "", db_password |-> ""]

\* str.rstrip("/") on the URIs above.
RStripSlash(s) == IF s = "https://db/" THEN "https://db" ELSE s

\* create_api_client() / MarvinAPIClient.__init__
create_api_client(settings) ==
    [db_uri |-> IF settings.db_uri /= "" THEN RStripSlash(settings.db_uri) ELSE "",
     db_name |-> settings.db_name,
     db_user |-> settings.db_user,
     db_password |-> settings.db_password,
     full_access_token |-> IF "full_access_token" \in DOMAIN settings
                           THEN settings.full_access_token
                           ELSE ""]

\* has_couchdb without the password.
has_couchdb_no_password(c) ==
    /\ c.db_uri /= ""
    /\ c.db_name /= ""
    /\ c.db_user /= ""

has_couchdb(c) ==
    /\ c.db_uri /= ""
    /\ c.db_name /= ""
    /\ c.db_user /= ""
    /\ c.db_password /= ""

\* find_docs asking for twice the cap it is given.
find_docs_doubled_limit(c, selector, fields, limit) ==
    IF ~has_couchdb(c)
    THEN [raises |-> "ValueError",
          message |-> [text |-> "CouchDB credentials not configured",
                       settings |-> {"AMAZING_MARVIN_DB_URI", "_DB_NAME",
                                     "_DB_USER", "_DB_PASSWORD"}]]
    ELSE [ep |-> "_find",
          url |-> <<c.db_uri, c.db_name, "_find">>,
          auth |-> <<c.db_user, c.db_password>>,
          body |-> ("selector" :> selector) @@ ("limit" :> 2 * limit)
                   @@ (IF TruthyList(fields)
                       THEN ("fields" :> (Range(fields.list) \cup {"_id"}))
                       ELSE <<>>)]

\* find_docs sending the field list as given, without "_id".
find_docs_as_given(c, selector, fields, limit) ==
    IF ~has_couchdb(c)
    THEN [raises |-> "ValueError",
          message |-> [text |-> "CouchDB credentials not configured",
                       settings |-> {"AMAZING_MARVIN_DB_URI", "_DB_NAME",
                                     "_DB_USER", "_DB_PASSWORD"}]]
    ELSE [ep |-> "_find",
          url |-> <<c.db_uri, c.db_name, "_find">>,
          auth |-> <<c.db_user, c.db_password>>,
          body |-> ("selector" :> selector) @@ ("limit" :> limit)
                   @@ (IF TruthyList(fields)
                       THEN ("fields" :> Range(fields.list))
                       ELSE <<>>)]

\* find_docs up to the point where the request is sent: either the
\* ValueError it raises or the POST it sends.
find_docs(c, selector, fields, limit) ==
    IF ~has_couchdb(c)
    THEN [raises |-> "ValueError",
          message |-> [text |-> "CouchDB credentials not configured",
                       settings |-> {"AMAZING_MARVIN_DB_URI", "_DB_NAME",
                                     "_DB_USER", "_DB_PASSWORD"}]]
    ELSE [ep |-> "_find",
          url |-> <<c.db_uri, c.db_name, "_find">>,
          auth |-> <<c.db_user, c.db_password>>,
          body |-> ("selector" :> selector) @@ ("limit" :> limit)
                   @@ (IF TruthyList(fields)
                       THEN ("fields" :> (Range(fields.list) \cup {"_id"}))
                       ELSE <<>>)]

\* send repeating a request that failed.
send_retrying(log, request) ==
    IF request.outcome = "ok"
    THEN Append(log, request)
    ELSE log \o <<request, request>>

\* One upstream request: it is sent once, and its outcome (the response, or
\* the exception raise_for_status raises) goes back to the caller as it is.
send(log, request) == Append(log, request)

\* create_task: the POST it sends.
create_task(task_data) ==
    [ep |-> "/addTask", method |-> "post", data |-> task_data]

\* update_doc sending its request whether or not the token is set.
update_doc_unchecked(c, item_id, setters) ==
    [ep |-> "/doc/update", method |-> "post", token |-> c.full_access_token,
     itemId |-> item_id, setters |-> setters]

\* update_doc up to the point where the request is sent: either the
\* ValueError _make_full_access_request raises or the POST it sends.
update_doc(c, item_id, setters) ==
    IF c.full_access_token = ""
    THEN [raises |-> "ValueError",
          message |-> [text |-> "Full access token not configured",
                       settings |-> {"AMAZING_MARVIN_FULL_ACCESS_TOKEN"}]]
    ELSE [ep |-> "/doc/update", method |-> "post", token |-> c.full_access_token,
          itemId |-> item_id, setters |-> setters]

\* get_children: what it hands back for each outcome of the GET.
get_children(w, parent_id, outcome) ==
    CASE outcome = "ok" -> [raises |-> NoneStr, children |-> StoreChildren(w, parent_id)]
      [] outcome = "404" -> [raises |-> NoneStr, children |-> <<>>]
      [] OTHER -> [raises |-> "HTTPError", children |-> <<>>]

----------------------------------------------------------------------------
(* query_tasks: the Mango selector *)

\* re_escape leaving every character as it is.
re_escape_none(chars) == chars

\* re.escape
RECURSIVE re_escape(_)
re_escape(chars) ==
    IF Len(chars) = 0 THEN <<>>
    ELSE (IF chars[1] \in RegexSpecial THEN <<"\\", chars[1]>> ELSE <<chars[1]>>)
         \o re_escape(Tail(chars))

BaseClause == "db" :> Lit("Tasks")

\* DoneClause excluding completed documents whatever include_done says.
DoneClauseAlways(r) == "done" :> Ops("$ne" :> TRUE)

DoneClause(r) ==
    IF ~r.include_done THEN "done" :> Ops("$ne" :> TRUE) ELSE <<>>

LabelClause(r, lid) ==
    IF Truthy(r.label)
    THEN "labelIds" :> Ops("$elemMatch" :> Ops("$eq" :> lid))
    ELSE <<>>

ContainsClause(r) ==
    IF Truthy(r.contains)
    THEN LET pattern == FlagI \o re_escape(Spell(r.contains))
         IN "$or" :> [alts |-> << "title" :> Ops("$regex" :> pattern),
                                  "note" :> Ops("$regex" :> pattern) >>]
    ELSE <<>>

\* DateClause with the range bounds tested before the exact date.
DateClauseRangeFirst(key, exact, before, after) ==
    IF Truthy(before) \/ Truthy(after)
    THEN key :> Ops((IF Truthy(after) THEN "$gte" :> after ELSE <<>>)
                    @@ (IF Truthy(before) THEN "$lte" :> before ELSE <<>>))
    ELSE IF Truthy(exact) THEN key :> Lit(exact) ELSE <<>>

\* DateClause with the two range operators exchanged.
DateClauseBoundsSwapped(key, exact, before, after) ==
    IF Truthy(exact)
    THEN key :> Lit(exact)
    ELSE IF Truthy(before) \/ Truthy(after)
         THEN key :> Ops((IF Truthy(after) THEN "$lte" :> after ELSE <<>>)
                         @@ (IF Truthy(before) THEN "$gte" :> before ELSE <<>>))
         ELSE <<>>

\* The exact/range rule shared by the due-date and scheduled-date filters.
DateClause(key, exact, before, after) ==
    IF Truthy(exact)
    THEN key :> Lit(exact)
    ELSE IF Truthy(before) \/ Truthy(after)
         THEN key :> Ops((IF Truthy(after) THEN "$gte" :> after ELSE <<>>)
                         @@ (IF Truthy(before) THEN "$lte" :> before ELSE <<>>))
         ELSE <<>>

DueClause(r) == DateClause("dueDate", r.due, r.due_before, r.due_after)

DayClause(r) ==
    DateClause("day", r.scheduled, r.scheduled_before, r.scheduled_after)

ParentClause(r) ==
    IF Truthy(r.parent_id) THEN "parentId" :> Lit(r.parent_id) ELSE <<>>

\* StarredClause leaving the clause out when is_starred is false.
StarredClauseTruthy(r) ==
    IF r.is_starred = "True" THEN "isStarred" :> Lit(1) ELSE <<>>

StarredClause(r) ==
    IF r.is_starred /= NoneStr
    THEN "isStarred" :> Lit(IF r.is_starred = "True" THEN 1 ELSE 0)
    ELSE <<>>

BuildSelector(r, lid) ==
    BaseClause @@ DoneClause(r) @@ LabelClause(r, lid) @@ ContainsClause(r)
    @@ DueClause(r) @@ DayClause(r) @@ ParentClause(r) @@ StarredClause(r)

\* label_match taking the last matching label of the lookup.
label_match_last(labels, name) ==
    LET Title(lb) == IF "title" \in DOMAIN lb THEN lb.title ELSE ""
        hits == {i \in 1..Len(labels) :
                    lower(Spell(Title(labels[i]))) = lower(Spell(name))}
    IN IF hits = {} THEN 0 ELSE CHOOSE i \in hits : \A j \in hits : i >= j

\* The upstream call counter left as it is after a call.
bump_none(n) == n

\* api_calls += 1
bump(n) == n + 1

\* label_match falling back to the first label when none matches.
label_match_default_first(labels, name) ==
    LET Title(lb) == IF "title" \in DOMAIN lb THEN lb.title ELSE ""
        hits == {i \in 1..Len(labels) :
                    lower(Spell(Title(labels[i]))) = lower(Spell(name))}
    IN IF hits = {} THEN 1 ELSE CHOOSE i \in hits : \A j \in hits : i <= j

\* The first label whose lower-cased title equals the lower-cased name, as a
\* position in the lookup's list (0: none).
label_match(labels, name) ==
    LET Title(lb) == IF "title" \in DOMAIN lb THEN lb.title ELSE ""
        hits == {i \in 1..Len(labels) :
                    lower(Spell(Title(labels[i]))) = lower(Spell(name))}
    IN IF hits = {} THEN 0 ELSE CHOOSE i \in hits : \A j \in hits : i <= j

\* Client-side exclusion of projects and categories.
ExcludeContainers(docs) ==
    SelectSeq(docs, LAMBDA d : ~("type" \in DOMAIN d /\ d.type \in {"project", "category"}))

FieldsReturned(fields) == Range(fields.list) \cup {"_id"}

----------------------------------------------------------------------------
(* Tree traversal (aggregate_all_tasks, get_children_recursive) *)

\* IsSubContainer recognising projects only.
IsSubContainerProjectOnly(child) ==
    "type" \in DOMAIN child /\ child.type = "project"

\* A child that is recursed into rather than accumulated.
IsSubContainer(child) ==
    "type" \in DOMAIN child /\ child.type \in {"project", "category"}

\* No cycle guard.
NeverVisited(c, seen) == FALSE

\* The cycle guard: a container already visited is skipped.
AlreadyVisited(c, seen) == c \in seen

\* visit_children letting a failure other than not-found end the traversal.
visit_children_propagate(w, c, outcome) ==
    LET got == get_children(w, c, outcome)
    IN [abort |-> got.raises /= NoneStr, children |-> got.children]

\* One container's children as the traversal sees them: a failed fetch is
\* logged and the subtree is empty; the traversal is never aborted.
visit_children(w, c, outcome) ==
    LET got == get_children(w, c, outcome)
    IN [abort |-> FALSE,
        children |-> IF got.raises = NoneStr THEN got.children ELSE <<>>]

\* TraversalResult counting one call more than the children fetches.
TraversalResultOneMore(tasks, n) ==
    ("tasks" :> tasks) @@ ("total_tasks" :> Len(tasks)) @@ ("api_calls_made" :> n + 1)

\* The flat result of a traversal.
TraversalResult(tasks, n) ==
    ("tasks" :> tasks) @@ ("total_tasks" :> Len(tasks)) @@ ("api_calls_made" :> n)

\* get_all_tasks: the field projection applied to the traversal's result.
ProjectFields(res, fields) ==
    IF TruthyList(fields) /\ "tasks" \in DOMAIN res
    THEN LET field_set == Range(fields.list) \cup {"_id"}
         IN ("tasks" :> [i \in 1..Len(res.tasks) |-> Restrict(res.tasks[i], field_set)])
            @@ ("fields_returned" :> field_set)
            @@ res
    ELSE res

\* The root lists a traversal may be given: the containers, in any order,
\* or some of them.
RootSeqs ==
    {<<c>> : c \in Containers}
    \cup {<<c, d>> : <<c, d>> \in {p \in Containers \X Containers : p[1] /= p[2]}}

----------------------------------------------------------------------------
(* Completed items: get_completed_tasks_for_date and the range summary *)

\* get_done_items: what it hands back for each outcome of the GET.
get_done_items(date, outcome) ==
    IF outcome = "ok"
    THEN [raises |-> NoneStr, items |-> DoneItems(date)]
    ELSE [raises |-> "HTTPError", items |-> <<>>]

\* item.get("parentId", "unassigned")
ParentOf(item) == IF "parentId" \in DOMAIN item THEN item.parentId ELSE Unassigned

\* The result dict of get_completed_tasks_for_date.
CompletedForDate(date, completed_items) ==
    LET unassigned == SelectSeq(completed_items, LAMBDA it : ParentOf(it) = Unassigned)
        keys == {ParentOf(completed_items[i]) : i \in 1..Len(completed_items)}
                \ {Unassigned}
        by_project == [p \in keys |->
                          SelectSeq(completed_items, LAMBDA it : ParentOf(it) = p)]
    IN [date |-> date,
        total_completed |-> Len(completed_items),
        completed_by_project |-> by_project,
        unassigned_completed |-> unassigned,
        project_count |-> Cardinality(DOMAIN by_project),
        unassigned_count |-> Len(unassigned),
        all_completed |-> completed_items]

\* The day count a range summary uses when none is given.
DefaultDays == 7

\* date_range letting the day count win over explicit dates.
date_range_days_first(days, start_date, end_date) ==
    LET hi == IF ~TruthyInt(days) /\ Truthy(start_date) /\ Truthy(end_date)
              THEN DayNo(end_date) ELSE DayNo(Today)
        lo == IF TruthyInt(days) THEN DayNo(Today) - days.int + 1
              ELSE IF Truthy(start_date) THEN DayNo(start_date)
              ELSE DayNo(Today) - DefaultDays + 1
    IN [i \in 1..(hi - lo + 1) |-> DateOf(lo + i - 1)]

\* The calendar days of a range summary, oldest first: from start_date to
\* end_date (today when absent) if start_date is given, else the last `days`
\* days up to today.
date_range(days, start_date, end_date) ==
    LET hi == IF Truthy(start_date) /\ Truthy(end_date)
              THEN DayNo(end_date) ELSE DayNo(Today)
        lo == IF Truthy(start_date) THEN DayNo(start_date)
              ELSE DayNo(Today) - (IF TruthyInt(days) THEN days.int ELSE DefaultDays) + 1
    IN [i \in 1..(hi - lo + 1) |-> DateOf(lo + i - 1)]

\* fetch_day letting a failed fetch end the whole summary.
fetch_day_propagate(date, outcome) ==
    LET got == get_done_items(date, outcome)
    IN [abort |-> got.raises /= NoneStr,
        entry |-> [date |-> date, completed_count |-> Len(got.items),
                   items |-> got.items, warning |-> FALSE]]

\* One day of a range summary: a failed fetch is caught, the day counts zero
\* items and carries a warning.
fetch_day(date, outcome) ==
    LET got == get_done_items(date, outcome)
    IN [abort |-> FALSE,
        entry |-> IF got.raises = NoneStr
                  THEN [date |-> date, completed_count |-> Len(got.items),
                        items |-> got.items, warning |-> FALSE]
                  ELSE [date |-> date, completed_count |-> 0,
                        items |-> <<>>, warning |-> TRUE]]

RECURSIVE SumCounts(_)
SumCounts(entries) ==
    IF entries = <<>> THEN 0
    ELSE Head(entries).completed_count + SumCounts(Tail(entries))

\* The merged result of a range summary.
RangeSummary(entries) ==
    [daily |-> entries,
     total_completed |-> SumCounts(entries),
     days_with_warning |-> {entries[i].date : i \in {j \in 1..Len(entries) : entries[j].warning}}]

\* The handler's estimate of the calls made.
estimated_days(days, start_date, end_date) ==
    IF Truthy(start_date) /\ Truthy(end_date)
    THEN DayNo(end_date) - DayNo(start_date) + 1
    ELSE IF TruthyInt(days) THEN days.int ELSE DefaultDays

----------------------------------------------------------------------------
(* Requests *)

FilterGroups == {"label", "fields", "include_done", "contains", "due",
                 "scheduled", "parent_id", "is_starred"}

Opt(G, g, vals, default) == IF g \in G THEN vals ELSE {default}

FieldVals == {ListOf(<<>>), ListOf(<<"title">>), ListOf(<<"_id", "type", "title">>)}

\* The query_tasks requests that supply (at most) the groups G.
ReqsFor(G) ==
    [label : Opt(G, "label", {"WORK", "home", ""}, NoneStr),
     fields : Opt(G, "fields", FieldVals, NoneList),
     include_done : Opt(G, "include_done", {TRUE}, FALSE),
     contains : Opt(G, "contains", {"MILK", "a.c"}, NoneStr),
     due : Opt(G, "due", {NoneStr, "", DateB}, NoneStr),
     due_before : Opt(G, "due", {NoneStr, DateC}, NoneStr),
     due_after : Opt(G, "due", {NoneStr, DateA}, NoneStr),
     scheduled : Opt(G, "scheduled", {NoneStr, DateB}, NoneStr),
     scheduled_before : Opt(G, "scheduled", {NoneStr, DateC}, NoneStr),
     scheduled_after : Opt(G, "scheduled", {NoneStr, DateA}, NoneStr),
     parent_id : Opt(G, "parent_id", {"c2"}, NoneStr),
     is_starred : Opt(G, "is_starred", {"True", "False"}, NoneStr)]

\* The range summary requests; end_date is given only with start_date.
RangeRequests ==
    {r \in [days : {NoneInt, IntOf(1), IntOf(2), IntOf(3)},
            start_date : {NoneStr, DateA, DateB, DateC},
            end_date : {NoneStr, DateA, DateB, DateC}] :
        Truthy(r.end_date) => Truthy(r.start_date)}

QueryRequests ==
    UNION {ReqsFor(G) : G \in {S \in SUBSET FilterGroups : Cardinality(S) <= MaxFilters}}

----------------------------------------------------------------------------
(* Responses (the arguments handed to the response envelope) *)

Success(data, summary, endpoint, n) ==
    [kind |-> "success", data |-> data, summary |-> summary,
     api_endpoint |-> endpoint, api_calls_made |-> n]

Error(exc, message, endpoint) ==
    [kind |-> "error", exc |-> exc, message |-> message, api_endpoint |-> endpoint]

\* ConfigErrorMessage naming only the settings that are unset.
ConfigErrorMessageMissingOnly(c) ==
    [text |-> "CouchDB credentials not configured",
     settings |-> (IF c.db_uri = "" THEN {"AMAZING_MARVIN_DB_URI"} ELSE {})
                  \cup (IF c.db_name = "" THEN {"_DB_NAME"} ELSE {})
                  \cup (IF c.db_user = "" THEN {"_DB_USER"} ELSE {})
                  \cup (IF c.db_password = "" THEN {"_DB_PASSWORD"} ELSE {}),
     fallback |-> "get_all_tasks"]

\* The ValueError query_tasks answers with when has_couchdb is false.
ConfigErrorMessage(c) ==
    [text |-> "CouchDB credentials not configured",
     settings |-> {"AMAZING_MARVIN_DB_URI", "_DB_NAME", "_DB_USER", "_DB_PASSWORD"},
     fallback |-> "get_all_tasks"]

\* The filter descriptions of the summary text, in the handler's order.
FilterDesc(r) ==
    (IF Truthy(r.label) THEN <<<<"label=", r.label>>>> ELSE <<>>)
    \o (IF Truthy(r.contains) THEN <<<<"contains=", r.contains>>>> ELSE <<>>)
    \o (IF Truthy(r.due) THEN <<<<"due=", r.due>>>> ELSE <<>>)
    \o (IF Truthy(r.due_before) THEN <<<<"due<=", r.due_before>>>> ELSE <<>>)
    \o (IF Truthy(r.due_after) THEN <<<<"due>=", r.due_after>>>> ELSE <<>>)
    \o (IF Truthy(r.scheduled) THEN <<<<"scheduled=", r.scheduled>>>> ELSE <<>>)
    \o (IF Truthy(r.scheduled_before) THEN <<<<"scheduled<=", r.scheduled_before>>>> ELSE <<>>)
    \o (IF Truthy(r.scheduled_after) THEN <<<<"scheduled>=", r.scheduled_after>>>> ELSE <<>>)
    \o (IF Truthy(r.parent_id) THEN <<<<"parent=", r.parent_id>>>> ELSE <<>>)
    \o (IF r.is_starred /= NoneStr
        THEN <<<<"starred=", IF r.is_starred = "True" THEN "yes" ELSE "no">>>>
        ELSE <<>>)

\* The result dict of a completed store query.
QueryResult(r, tasks) ==
    ("tasks" :> tasks) @@ ("total_tasks" :> Len(tasks))
    @@ ("source" :> "CouchDB _find query")
    @@ (IF TruthyList(r.fields) THEN "fields_returned" :> FieldsReturned(r.fields) ELSE <<>>)
    @@ (IF Truthy(r.label) THEN "label_filter" :> r.label ELSE <<>>)

\* The result of the label-not-found short-circuit.
NoLabelResult == ("tasks" :> <<>>) @@ ("total_tasks" :> 0)

----------------------------------------------------------------------------
(* State machine *)

Idle ==
    /\ tool = "idle" /\ pc = "idle"

\* The caller keeps nothing of an earlier response.
NoPrev == [none |-> TRUE]

Reset ==
    /\ client = <<>> /\ req = <<>> /\ label_id = NoneStr /\ api_calls = 0
    /\ calls = <<>> /\ work = <<>> /\ visited = {} /\ acc = <<>> /\ result = <<>>
    /\ daily = <<>>

Init ==
    /\ world \in Worlds
    /\ extra \in ExtraCounts
    /\ extra > 0 => world = [c \in Containers |-> Unassigned]
    /\ Idle
    /\ Reset
    /\ prev = NoPrev
    /\ frames = <<>> /\ running = <<>>

\* A traversal keeping the visited set of the traversal before it.
visited_kept(earlier) == earlier

\* The visited set a traversal starts with, whatever an earlier one visited.
fresh_visited(earlier) == {}

\* query_tasks entered with the request r under the given settings: build the
\* client, check has_couchdb.
QueryTasksBegin(settings, r) ==
    LET c == create_api_client(settings) IN
    /\ tool' = "query_tasks"
    /\ client' = c
    /\ req' = r
    /\ label_id' = NoneStr /\ api_calls' = 0 /\ calls' = <<>>
    /\ work' = <<>> /\ visited' = {} /\ acc' = <<>> /\ daily' = <<>>
    /\ IF ~has_couchdb(c)
       THEN /\ pc' = "done"
            /\ result' = Error("ValueError", ConfigErrorMessage(c), "CouchDB _find")
       ELSE /\ pc' = IF Truthy(r.label) THEN "labels" ELSE "find"
            /\ result' = <<>>

\* query_tasks up to the label lookup.
QueryTasksStart ==
    /\ Idle
    /\ \E settings \in SettingsSet, r \in QueryRequests : QueryTasksBegin(settings, r)
    /\ UNCHANGED <<world, extra, prev, frames, running>>

\* query_tasks: the label lookup (GET /labels) and the name -> id resolution.
QueryTasksLabels ==
    /\ tool = "query_tasks" /\ pc = "labels"
    /\ \E outcome \in {"ok", "fail"} :
          /\ calls' = send(calls, [ep |-> "/labels", method |-> "get", outcome |-> outcome])
          /\ IF outcome = "fail"
             THEN /\ pc' = "done"
                  /\ result' = Error("HTTPError", <<>>, "CouchDB _find")
                  /\ UNCHANGED <<api_calls, label_id>>
             ELSE LET m == label_match(Labels, req.label) IN
                  /\ api_calls' = bump(api_calls)
                  /\ IF m /= 0
                     THEN /\ label_id' = Labels[m]._id
                          /\ pc' = "find"
                          /\ result' = result
                     ELSE /\ label_id' = label_id
                          /\ pc' = "done"
                          /\ result' = Success(NoLabelResult,
                                               <<"No label found matching", req.label>>,
                                               "CouchDB _find", bump(api_calls))
    /\ UNCHANGED <<world, extra, tool, client, req, work, visited, acc>>
    /\ UNCHANGED <<daily, prev, frames, running>>

\* query_tasks: the store query, the client-side exclusion and the result.
QueryTasksFind ==
    /\ tool = "query_tasks" /\ pc = "find"
    /\ LET sent == find_docs(client, BuildSelector(req, label_id), req.fields, DefaultLimit) IN
       IF "raises" \in DOMAIN sent
       THEN /\ pc' = "done"
            /\ result' = Error(sent.raises, sent.message, "CouchDB _find")
            /\ UNCHANGED <<calls, api_calls>>
       ELSE \E outcome \in {"ok", "fail"} :
               /\ calls' = send(calls, sent @@ ("outcome" :> outcome))
               /\ pc' = "done"
               /\ IF outcome = "fail"
                  THEN /\ result' = Error("HTTPError", <<>>, "CouchDB _find")
                       /\ UNCHANGED api_calls
                  ELSE LET docs == StoreFind(world, sent.body)
                           tasks == ExcludeContainers(docs)
                       IN /\ api_calls' = bump(api_calls)
                          /\ result' = Success(QueryResult(req, tasks),
                                               <<"Retrieved", Len(tasks), "tasks via CouchDB",
                                                 FilterDesc(req)>>,
                                               "CouchDB _find", bump(api_calls))
    /\ UNCHANGED <<world, extra, tool, client, req, label_id, work, visited, acc>>
    /\ UNCHANGED <<daily, prev, frames, running>>

\* MarvinAPIClient.find_docs called on a client directly.
FindDocsCall ==
    /\ Idle
    /\ \E settings \in SettingsSet, fields \in FieldVals \cup {NoneList} :
          LET c == create_api_client(settings)
              sent == find_docs(c, BaseClause, fields, DefaultLimit)
          IN /\ tool' = "find_docs"
             /\ pc' = "done"
             /\ client' = c
             /\ req' = [fields |-> fields]
             /\ IF "raises" \in DOMAIN sent
                THEN /\ result' = Error(sent.raises, sent.message, "CouchDB _find")
                     /\ calls' = calls
                ELSE \E outcome \in {"ok", "fail"} :
                        /\ calls' = send(calls, sent @@ ("outcome" :> outcome))
                        /\ result' = IF outcome = "fail"
                                     THEN Error("HTTPError", <<>>, "CouchDB _find")
                                     ELSE [kind |-> "docs", docs |-> StoreFind(world, sent.body)]
    /\ UNCHANGED <<world, extra, label_id, api_calls, work, visited, acc>>
    /\ UNCHANGED <<daily, prev, frames, running>>

\* get_all_tasks entered: the aggregation starts over the given roots.
GetAllTasksBegin(roots, fields) ==
    /\ req' = [label |-> NoneStr, fields |-> fields, roots |-> roots]
    /\ work' = roots
    /\ tool' = "get_all_tasks"
    /\ pc' = "traverse"
    /\ client' = create_api_client(DefaultSettings)
    /\ visited' = fresh_visited(visited)
    /\ label_id' = NoneStr /\ api_calls' = 0 /\ calls' = <<>>
    /\ acc' = <<>> /\ daily' = <<>> /\ result' = <<>>

\* get_all_tasks: start the aggregation over the given roots.
GetAllTasksStart ==
    /\ Idle
    /\ \E roots \in RootSeqs, fields \in FieldVals \cup {NoneList} :
          GetAllTasksBegin(roots, fields)
    /\ UNCHANGED <<world, extra, prev, frames, running>>

\* get_child_tasks(recursive=True): start the traversal of one subtree.
GetChildTasksStart ==
    /\ Idle
    /\ \E parent_id \in Containers \cup {"t1"} :
          /\ req' = [parent_id |-> parent_id, recursive |-> TRUE]
          /\ work' = <<parent_id>>
    /\ tool' = "get_child_tasks"
    /\ pc' = "traverse"
    /\ client' = create_api_client(DefaultSettings)
    /\ UNCHANGED <<world, extra, label_id, api_calls, calls, visited, acc, result>>
    /\ UNCHANGED <<daily, prev, frames, running>>

\* is_project counting categories as projects too.
is_project_or_category(item) ==
    "type" \in DOMAIN item /\ item.type \in {"project", "category"}

\* item.get("type") == "project"
is_project(item) == "type" \in DOMAIN item /\ item.type = "project"

\* get_child_tasks(recursive=False): one children call, split by type.
GetChildTasksFlat ==
    /\ Idle
    /\ \E parent_id \in Containers \cup {"t1"}, outcome \in {"ok", "404", "fail"} :
          LET got == get_children(world, parent_id, outcome)
              children == got.children
              tasks == SelectSeq(children, LAMBDA d : ~is_project(d))
              projects == SelectSeq(children, LAMBDA d : is_project(d))
          IN /\ req' = [parent_id |-> parent_id, recursive |-> FALSE]
             /\ calls' = send(calls, [ep |-> "/children", method |-> "get",
                                       parentId |-> parent_id, outcome |-> outcome])
             /\ IF got.raises /= NoneStr
                THEN /\ result' = Error(got.raises, <<>>, "/children")
                     /\ api_calls' = api_calls
                ELSE /\ api_calls' = 1
                     /\ result' = Success(
                            ("parent_id" :> parent_id) @@ ("total_children" :> Len(children))
                            @@ ("tasks" :> tasks) @@ ("projects" :> projects)
                            @@ ("task_count" :> Len(tasks)) @@ ("project_count" :> Len(projects))
                            @@ ("all_children" :> children) @@ ("recursive" :> FALSE),
                            <<"Retrieved", Len(children), "child items for parent", parent_id>>,
                            "/children", 1)
    /\ tool' = "get_child_tasks"
    /\ pc' = "done"
    /\ client' = create_api_client(DefaultSettings)
    /\ UNCHANGED <<world, extra, label_id, work, visited, acc>>
    /\ UNCHANGED <<daily, prev, frames, running>>

\* Visit the next container: skip it if it was visited, else fetch its
\* children, accumulate the tasks among them and recurse into the rest.
TraverseStep ==
    /\ tool \in {"get_all_tasks", "get_child_tasks"} /\ pc = "traverse"
    /\ work /= <<>>
    /\ LET c == Head(work) IN
       IF AlreadyVisited(c, visited)
       THEN /\ work' = Tail(work)
            /\ UNCHANGED <<pc, api_calls, calls, visited, acc, result>>
       ELSE /\ api_calls < MaxCalls
            /\ \E outcome \in {"ok", "404", "fail"} :
                  LET sub == visit_children(world, c, outcome)
                      subs == SelectSeq(sub.children, IsSubContainer)
                      tasks == SelectSeq(sub.children, LAMBDA d : ~IsSubContainer(d))
                  IN /\ calls' = send(calls, [ep |-> "/children", method |-> "get",
                                               parentId |-> c, outcome |-> outcome])
                     /\ api_calls' = api_calls + 1
                     /\ visited' = visited \cup {c}
                     /\ IF sub.abort
                        THEN /\ pc' = "done"
                             /\ result' = Error("HTTPError", <<>>,
                                                IF tool = "get_all_tasks"
                                                THEN "/categories + /children"
                                                ELSE "/children")
                             /\ UNCHANGED <<work, acc>>
                        ELSE /\ acc' = acc \o tasks
                             /\ work' = [i \in 1..Len(subs) |-> subs[i]._id] \o Tail(work)
                             /\ UNCHANGED <<pc, result>>
    /\ UNCHANGED <<world, extra, tool, client, req, label_id>>
    /\ UNCHANGED <<daily, prev, frames, running>>

\* The traversal is over: the handler builds its response.
TraverseDone ==
    /\ tool \in {"get_all_tasks", "get_child_tasks"} /\ pc = "traverse"
    /\ work = <<>>
    /\ pc' = "done"
    /\ LET res == TraversalResult(acc, api_calls) IN
       IF tool = "get_all_tasks"
       THEN LET data == ProjectFields(res, req.fields)
            IN result' = Success(data,
                                 <<"Retrieved", data.total_tasks, "tasks across all projects">>,
                                 "/categories + /children",
                                 IF "api_calls_made" \in DOMAIN data
                                 THEN data.api_calls_made ELSE EstimatedCalls)
       ELSE LET data == res @@ ("parent_id" :> req.parent_id) @@ ("recursive" :> TRUE)
                         @@ ("total_children" :> Len(acc))
            IN result' = Success(data,
                                 <<"Retrieved", data.total_children, "child items for parent",
                                   req.parent_id>>,
                                 "/children",
                                 IF "api_calls_made" \in DOMAIN data
                                 THEN data.api_calls_made ELSE EstimatedRecursiveCalls)
    /\ UNCHANGED <<world, extra, tool, client, req, label_id, api_calls, calls, work, visited, acc>>
    /\ UNCHANGED <<daily, prev, frames, running>>

\* get_completed_tasks_for_date: one /doneItems call, grouped by parent.
GetCompletedForDate ==
    /\ Idle
    /\ \E date \in Range(Calendar), outcome \in {"ok", "fail"} :
          LET got == get_done_items(date, outcome) IN
          /\ req' = [date |-> date]
          /\ calls' = send(calls, [ep |-> "/doneItems", method |-> "get",
                                   date |-> date, outcome |-> outcome])
          /\ IF got.raises /= NoneStr
             THEN /\ result' = Error(got.raises, <<>>, "/doneItems")
                  /\ api_calls' = api_calls
             ELSE /\ api_calls' = 1
                  /\ result' = Success(CompletedForDate(date, got.items),
                                       <<"Retrieved", Len(got.items), "completed tasks for", date>>,
                                       "/doneItems", 1)
    /\ tool' = "get_completed_tasks_for_date"
    /\ pc' = "done"
    /\ client' = create_api_client(DefaultSettings)
    /\ UNCHANGED <<world, extra, label_id, work, visited, acc>>
    /\ UNCHANGED <<daily, prev, frames, running>>

RangeRun == tool = "get_productivity_summary_for_time_range"

\* get_productivity_summary_for_time_range: work out the days to fetch.
RangeSummaryStart ==
    /\ Idle
    /\ \E r \in RangeRequests :
          /\ req' = r
          /\ work' = date_range(r.days, r.start_date, r.end_date)
    /\ tool' = "get_productivity_summary_for_time_range"
    /\ pc' = "range"
    /\ client' = create_api_client(DefaultSettings)
    /\ UNCHANGED <<world, extra, label_id, api_calls, calls, visited, acc, result>>
    /\ UNCHANGED <<daily, prev, frames, running>>

\* The range summary fetches the completed items of its next day.
RangeFetchDay ==
    /\ RangeRun /\ pc = "range"
    /\ work /= <<>>
    /\ \E outcome \in {"ok", "fail"} :
          LET date == Head(work)
              got == fetch_day(date, outcome)
              failed == {i \in 1..Len(calls) : calls[i].outcome /= "ok"}
          IN /\ outcome = "fail" => Cardinality(failed) < MaxDayFailures
             /\ calls' = send(calls, [ep |-> "/doneItems", method |-> "get",
                                      date |-> date, outcome |-> outcome])
             /\ api_calls' = api_calls + 1
             /\ IF got.abort
                THEN /\ pc' = "done"
                     /\ result' = Error("HTTPError", <<>>, "/doneItems")
                     /\ UNCHANGED <<work, daily>>
                ELSE /\ daily' = Append(daily, got.entry)
                     /\ work' = Tail(work)
                     /\ UNCHANGED <<pc, result>>
    /\ UNCHANGED <<world, extra, tool, client, req, label_id, visited, acc>>
    /\ UNCHANGED <<prev, frames, running>>

\* Every day of the range was tried: the handler builds its response.
RangeSummaryDone ==
    /\ RangeRun /\ pc = "range"
    /\ work = <<>>
    /\ pc' = "done"
    /\ LET n == estimated_days(req.days, req.start_date, req.end_date)
       IN result' = Success(RangeSummary(daily),
                            <<"Retrieved productivity summary for", n, "days">>,
                            "/doneItems", n)
    /\ UNCHANGED <<world, extra, tool, client, req, label_id, api_calls, calls, work, visited, acc>>
    /\ UNCHANGED <<daily, prev, frames, running>>

\* All four store settings set.
FullSettings ==
    [db_uri |-> "https://db/", db_name |-> "marvin",
     db_user |-> "user", db_password |-> "secret"]

\* The query_tasks request that asks the store for what get_all_tasks(fields)
\* ranges over: every task, completed ones included, no other filter.
StoreRequestFor(fields) ==
    [label |-> NoneStr, fields |-> fields, include_done |-> TRUE,
     contains |-> NoneStr, due |-> NoneStr, due_before |-> NoneStr,
     due_after |-> NoneStr, scheduled |-> NoneStr, scheduled_before |-> NoneStr,
     scheduled_after |-> NoneStr, parent_id |-> NoneStr, is_starred |-> NoneStr]

\* What the caller keeps of a response to compare the next one with.
Kept ==
    [tool |-> tool, req |-> req, calls |-> calls,
     ids |-> {result.data.tasks[i]._id : i \in 1..Len(result.data.tasks)},
     total |-> result.data.total_tasks,
     fields_returned |-> IF "fields_returned" \in DOMAIN result.data
                         THEN {result.data.fields_returned} ELSE {}]

\* The caller, holding a task list, asks again before anything changes
\* upstream: the same request of the same tool, or after get_all_tasks over
\* all containers the same projection from query_tasks.
Again ==
    /\ pc = "done" /\ result.kind = "success" /\ prev = NoPrev
    /\ tool \in {"query_tasks", "get_all_tasks"}
    /\ prev' = Kept
    /\ \/ tool = "query_tasks" /\ QueryTasksBegin(client, req)
       \/ tool = "get_all_tasks" /\ GetAllTasksBegin(req.roots, req.fields)
       \/ /\ tool = "get_all_tasks" /\ Range(req.roots) = Containers
          /\ QueryTasksBegin(FullSettings, StoreRequestFor(req.fields))
    /\ UNCHANGED <<world, extra, frames, running>>

\* d.get(k)
get(d, k) == IF k \in DOMAIN d THEN d[k] ELSE NoneStr

\* The create_task requests: a title, an optional project (None, empty or
\* c2), an optional category, an optional due date.
CreateRequests ==
    [title : {"T"}, project_id : {NoneStr, "", "c2"}, category_id : {NoneStr, "c1"},
     due_date : {NoneStr, DateA}, note : {NoneStr}]

\* The environment's full access token: unset or set.
Tokens == {"", "tok"}

\* task_data as create_task builds it.
TaskData(r) ==
    ("title" :> r.title)
    @@ (IF Truthy(r.project_id) THEN "parentId" :> r.project_id ELSE <<>>)
    @@ (IF Truthy(r.category_id) THEN "categoryId" :> r.category_id ELSE <<>>)
    @@ (IF Truthy(r.due_date) THEN "dueDate" :> r.due_date ELSE <<>>)
    @@ (IF Truthy(r.note) THEN "note" :> r.note ELSE <<>>)

\* What /addTask may answer: the task data, with or without an identifier,
\* and with no parent reference or any one (the one sent, another container,
\* the inbox).
AddTaskResponses(task_data) ==
    LET rest == Restrict(task_data, DOMAIN task_data \ {"parentId"})
        ids == {<<>>, "_id" :> "n1"}
        parents == {<<>>} \cup {"parentId" :> p : p \in Containers \cup {Unassigned}}
    IN {i @@ p @@ rest : i \in ids, p \in parents}

\* parent_id taking the category before the project.
requested_parent_category_first(r) ==
    IF Truthy(r.category_id) THEN r.category_id ELSE r.project_id

\* parent_id = project_id or category_id
requested_parent(r) ==
    IF Truthy(r.project_id) THEN r.project_id ELSE r.category_id

\* parent_id and task_id
has_parent_and_id(parent_id, created_task) ==
    Truthy(parent_id) /\ Truthy(get(created_task, "_id"))

\* parent_id and task_id and created_task.get("parentId") != parent_id
needs_fixup(parent_id, created_task) ==
    /\ has_parent_and_id(parent_id, created_task)
    /\ get(created_task, "parentId") /= parent_id

\* The success response of create_task.
CreatedResult(r, created_task) ==
    Success("created_task" :> created_task, <<"Created task:", r.title>>, "/addTask",
            IF has_parent_and_id(requested_parent(r), created_task) THEN 2 ELSE 1)

\* create_task: build the client and the task data, send /addTask, and
\* decide whether the parent reference has to be fixed.
CreateTaskStart ==
    /\ Idle
    /\ \E r \in CreateRequests, token \in Tokens, outcome \in {"ok", "fail"} :
          LET c == create_api_client(("full_access_token" :> token) @@ DefaultSettings)
              task_data == TaskData(r)
          IN /\ client' = c
             /\ req' = r
             /\ IF outcome = "fail"
                THEN /\ calls' = send(calls, create_task(task_data)
                                             @@ ("outcome" :> outcome))
                     /\ pc' = "done"
                     /\ result' = Error("HTTPError", <<>>, "/addTask")
                     /\ UNCHANGED acc
                ELSE \E created_task \in AddTaskResponses(task_data) :
                        /\ calls' = send(calls, create_task(task_data)
                                                @@ ("outcome" :> outcome)
                                                @@ ("response" :> created_task))
                        /\ acc' = <<created_task>>
                        /\ IF needs_fixup(requested_parent(r), created_task)
                           THEN pc' = "fixup" /\ UNCHANGED result
                           ELSE /\ pc' = "done"
                                /\ result' = CreatedResult(r, created_task)
    /\ tool' = "create_task"
    /\ UNCHANGED <<world, extra, label_id, api_calls, work, visited>>
    /\ UNCHANGED <<daily, prev, frames, running>>

\* create_task: /addTask left the parent reference wrong; set it with
\* update_doc and put it into the task that is returned.
CreateTaskFixup ==
    /\ tool = "create_task" /\ pc = "fixup"
    /\ LET created_task == acc[1]
           parent_id == requested_parent(req)
           sent == update_doc(client, created_task["_id"],
                              <<[key |-> "parentId", val |-> parent_id]>>)
       IN IF "raises" \in DOMAIN sent
          THEN /\ result' = Error(sent.raises, sent.message, "/addTask")
               /\ UNCHANGED <<calls, acc>>
          ELSE \E outcome \in {"ok", "fail"} :
                  /\ calls' = send(calls, sent @@ ("outcome" :> outcome))
                  /\ IF outcome = "fail"
                     THEN /\ result' = Error("HTTPError", <<>>, "/addTask")
                          /\ UNCHANGED acc
                     ELSE LET fixed == ("parentId" :> parent_id) @@ created_task
                          IN /\ acc' = <<fixed>>
                             /\ result' = CreatedResult(req, fixed)
    /\ pc' = "done"
    /\ UNCHANGED <<world, extra, tool, client, req, label_id, api_calls, work, visited>>
    /\ UNCHANGED <<daily, prev, frames, running>>

\* mark_task_done: the POST it sends, with the outcome upstream gives it.
mark_task_done(item_id, outcome) ==
    [ep |-> "/markDone", method |-> "post", itemId |-> item_id,
     timeZoneOffset |-> 0, outcome |-> outcome]

\* What upstream answers to a mark-done request it accepts.
MarkDoneResponse(item_id) == [_id |-> item_id, done |-> TRUE]

\* The identifier lists batch_mark_done may be given; an identifier may be
\* listed more than once.
TaskIdLists == UNION {[1..n -> Tasks] : n \in 0..MaxBatch}

\* The loop of batch_mark_done giving up at the first failed call.
RECURSIVE mark_each_until_failure(_, _, _)
mark_each_until_failure(task_ids, outcomes, st) ==
    IF task_ids = <<>>
    THEN st
    ELSE LET task_id == Head(task_ids)
             sent == send(st.calls, mark_task_done(task_id, Head(outcomes)))
         IN IF Head(outcomes) = "ok"
            THEN mark_each_until_failure(Tail(task_ids), Tail(outcomes),
                     [st EXCEPT !.calls = sent,
                                !.completed_tasks = Append(@, MarkDoneResponse(task_id))])
            ELSE [st EXCEPT !.calls = sent,
                            !.failed_tasks = Append(@, [task_id |-> task_id,
                                                        error |-> "HTTPError"])]

\* The loop of batch_mark_done: one mark_task_done per identifier, in list
\* order; an exception is recorded in failed_tasks and the loop goes on.
RECURSIVE mark_each(_, _, _)
mark_each(task_ids, outcomes, st) ==
    IF task_ids = <<>>
    THEN st
    ELSE LET task_id == Head(task_ids)
             sent == send(st.calls, mark_task_done(task_id, Head(outcomes)))
         IN mark_each(Tail(task_ids), Tail(outcomes),
                IF Head(outcomes) = "ok"
                THEN [st EXCEPT !.calls = sent,
                                !.completed_tasks = Append(@, MarkDoneResponse(task_id))]
                ELSE [st EXCEPT !.calls = sent,
                                !.failed_tasks = Append(@, [task_id |-> task_id,
                                                            error |-> "HTTPError"])])

\* batch_mark_done: the whole handler.
BatchMarkDone ==
    /\ Idle
    /\ \E task_ids \in TaskIdLists :
       \E outcomes \in [1..Len(task_ids) -> {"ok", "fail"}] :
          LET st == mark_each(task_ids, outcomes,
                              [calls |-> calls, completed_tasks |-> <<>>,
                               failed_tasks |-> <<>>])
          IN /\ req' = [task_ids |-> task_ids]
             /\ calls' = st.calls
             /\ result' = Success(
                    ("completed_tasks" :> st.completed_tasks)
                    @@ ("failed_tasks" :> st.failed_tasks)
                    @@ ("success_count" :> Len(st.completed_tasks))
                    @@ ("failure_count" :> Len(st.failed_tasks))
                    @@ ("total_requested" :> Len(task_ids)),
                    <<"Marked", Len(st.completed_tasks), "of", Len(task_ids), "tasks as done">>,
                    "/markDone", Len(task_ids))
    /\ tool' = "batch_mark_done"
    /\ pc' = "done"
    /\ client' = create_api_client(DefaultSettings)
    /\ UNCHANGED <<world, extra, label_id, api_calls, work, visited, acc>>
    /\ UNCHANGED <<daily, prev, frames, running>>

\* The response is handed to the caller; nothing of the invocation survives.
Return ==
    /\ pc = "done"
    /\ tool' = "idle" /\ pc' = "idle"
    /\ client' = <<>> /\ req' = <<>> /\ label_id' = NoneStr /\ api_calls' = 0
    /\ calls' = <<>> /\ work' = <<>> /\ visited' = {} /\ acc' = <<>> /\ result' = <<>>
    /\ daily' = <<>> /\ prev' = NoPrev
    /\ UNCHANGED <<world, extra, frames, running>>

Next ==
    \/ QueryTasksStart
    \/ QueryTasksLabels
    \/ QueryTasksFind
    \/ FindDocsCall
    \/ GetAllTasksStart
    \/ GetChildTasksStart
    \/ GetChildTasksFlat
    \/ TraverseStep
    \/ TraverseDone
    \/ GetCompletedForDate
    \/ RangeSummaryStart
    \/ RangeFetchDay
    \/ RangeSummaryDone
    \/ BatchMarkDone
    \/ CreateTaskStart
    \/ CreateTaskFixup
    \/ Again
    \/ Return

Spec == Init /\ [][Next]_vars

----------------------------------------------------------------------------
(* Concurrent invocations *)

\* Two tool invocations in flight at once. An invocation is a record of its
\* parameters, its position and its response (running) together with the
\* handler's local variables (frames); a step of one invocation may come
\* between any two steps of the other.
Invocations == {1, 2}

\* Every handler's local variables in one place shared by all invocations.
LocalSlotShared(i) == 1

\* Where the local variables of invocation i live: each call of a handler
\* has its own client, selector and accumulators.
LocalSlot(i) == i

RunFields == {"tool", "pc", "settings", "req", "outs", "result"}
FrameFields == {"client", "label_id", "api_calls", "calls", "work", "visited", "acc"}

IdleInvocation ==
    [tool |-> "idle", pc |-> "idle", settings |-> <<>>, req |-> <<>>,
     outs |-> <<>>, result |-> <<>>]

EmptyFrame ==
    [client |-> <<>>, label_id |-> NoneStr, api_calls |-> 0, calls |-> <<>>,
     work |-> <<>>, visited |-> {}, acc |-> <<>>]

\* The invocations the concurrent callers make.
ConcCalls ==
    {[tool |-> "query_tasks", settings |-> st, req |-> r] :
        st \in {FullSettings, DefaultSettings},
        r \in {[StoreRequestFor(NoneList) EXCEPT !.label = "WORK"],
               [StoreRequestFor(NoneList) EXCEPT !.label = "home"],
               [StoreRequestFor(ListOf(<<"title">>)) EXCEPT !.parent_id = "c2"]}}
    \cup {[tool |-> "get_all_tasks", settings |-> DefaultSettings,
           req |-> [label |-> NoneStr, fields |-> f, roots |-> <<"c1", "c2">>]] :
              f \in {NoneList, ListOf(<<"title">>)}}

\* A handler entered: query_tasks builds its client and checks has_couchdb,
\* get_all_tasks starts its aggregation.
Enter(call) ==
    LET c == create_api_client(call.settings)
        X == IdleInvocation @@ EmptyFrame
    IN IF call.tool = "query_tasks"
       THEN [X EXCEPT !.tool = call.tool, !.settings = call.settings,
                      !.req = call.req, !.client = c,
                      !.pc = IF ~has_couchdb(c) THEN "done"
                             ELSE IF Truthy(call.req.label) THEN "labels" ELSE "find",
                      !.result = IF ~has_couchdb(c)
                                 THEN Error("ValueError", ConfigErrorMessage(c), "CouchDB _find")
                                 ELSE <<>>]
       ELSE [X EXCEPT !.tool = call.tool, !.settings = call.settings,
                      !.req = call.req, !.client = c,
                      !.pc = "traverse", !.work = call.req.roots]

\* The handler's next step sends an upstream request.
NeedsCall(X) ==
    \/ X.pc \in {"labels", "find"}
    \/ /\ X.pc = "traverse" /\ X.work /= <<>>
       /\ ~AlreadyVisited(Head(X.work), X.visited)

Outcomes(X) == IF X.pc = "traverse" THEN {"ok", "404", "fail"} ELSE {"ok", "fail"}

\* The label lookup of query_tasks.
StepLabels(X, outcome) ==
    LET log == send(X.calls, [ep |-> "/labels", method |-> "get", outcome |-> outcome])
        m == label_match(Labels, X.req.label)
    IN IF outcome /= "ok"
       THEN [X EXCEPT !.calls = log, !.pc = "done",
                      !.result = Error("HTTPError", <<>>, "CouchDB _find")]
       ELSE IF m /= 0
            THEN [X EXCEPT !.calls = log, !.api_calls = @ + 1,
                           !.label_id = Labels[m]._id, !.pc = "find"]
            ELSE [X EXCEPT !.calls = log, !.api_calls = @ + 1, !.pc = "done",
                           !.result = Success(NoLabelResult,
                                              <<"No label found matching", X.req.label>>,
                                              "CouchDB _find", X.api_calls + 1)]

\* The store query of query_tasks.
StepFind(w, X, outcome) ==
    LET sent == find_docs(X.client, BuildSelector(X.req, X.label_id), X.req.fields,
                          DefaultLimit)
    IN IF "raises" \in DOMAIN sent
       THEN [X EXCEPT !.pc = "done",
                      !.result = Error(sent.raises, sent.message, "CouchDB _find")]
       ELSE LET log == send(X.calls, sent @@ ("outcome" :> outcome))
                tasks == ExcludeContainers(StoreFind(w, sent.body))
            IN IF outcome /= "ok"
               THEN [X EXCEPT !.calls = log, !.pc = "done",
                              !.result = Error("HTTPError", <<>>, "CouchDB _find")]
               ELSE [X EXCEPT !.calls = log, !.api_calls = @ + 1, !.pc = "done",
                              !.result = Success(QueryResult(X.req, tasks),
                                                 <<"Retrieved", Len(tasks), "tasks via CouchDB",
                                                   FilterDesc(X.req)>>,
                                                 "CouchDB _find", X.api_calls + 1)]

\* One step of the aggregation behind get_all_tasks, or its response.
StepTraverse(w, X, outcome) ==
    IF X.work = <<>>
    THEN LET data == ProjectFields(TraversalResult(X.acc, X.api_calls), X.req.fields)
         IN [X EXCEPT !.pc = "done",
                      !.result = Success(data,
                                         <<"Retrieved", data.total_tasks,
                                           "tasks across all projects">>,
                                         "/categories + /children",
                                         IF "api_calls_made" \in DOMAIN data
                                         THEN data.api_calls_made ELSE EstimatedCalls)]
    ELSE LET c == Head(X.work) IN
         IF AlreadyVisited(c, X.visited)
         THEN [X EXCEPT !.work = Tail(@)]
         ELSE LET sub == visit_children(w, c, outcome)
                  subs == SelectSeq(sub.children, IsSubContainer)
                  tasks == SelectSeq(sub.children, LAMBDA d : ~IsSubContainer(d))
                  log == send(X.calls, [ep |-> "/children", method |-> "get",
                                        parentId |-> c, outcome |-> outcome])
              IN IF sub.abort
                 THEN [X EXCEPT !.calls = log, !.api_calls = @ + 1,
                                !.visited = @ \cup {c}, !.pc = "done",
                                !.result = Error("HTTPError", <<>>,
                                                 "/categories + /children")]
                 ELSE [X EXCEPT !.calls = log, !.api_calls = @ + 1,
                                !.visited = @ \cup {c},
                                !.acc = @ \o tasks,
                                !.work = [i \in 1..Len(subs) |-> subs[i]._id] \o Tail(@)]

\* The handler's next step, given the upstream's answer to the request it
\* sends (if it sends one).
Step(w, X, outcome) ==
    LET Y == CASE X.pc = "labels" -> StepLabels(X, outcome)
               [] X.pc = "find" -> StepFind(w, X, outcome)
               [] X.pc = "traverse" -> StepTraverse(w, X, outcome)
    IN IF NeedsCall(X) THEN [Y EXCEPT !.outs = Append(@, outcome)] ELSE Y

\* The invocation run on its own from X to its response, the upstream
\* answering its requests with the outcomes outs, in order.
RECURSIVE RunAlone(_, _, _)
RunAlone(w, X, outs) ==
    IF X.pc = "done" THEN X
    ELSE IF ~NeedsCall(X) THEN RunAlone(w, Step(w, X, "ok"), outs)
    ELSE IF outs = <<>> THEN X
    ELSE RunAlone(w, Step(w, X, Head(outs)), Tail(outs))

\* Invocation i as its handler sees it.
Seen(i) == running[i] @@ frames[LocalSlot(i)]

Put(i, X) ==
    /\ running' = [running EXCEPT ![i] = Restrict(X, RunFields)]
    /\ frames' = [frames EXCEPT ![LocalSlot(i)] = Restrict(X, FrameFields)]

seqVars == <<tool, pc, client, req, label_id, api_calls, calls, work, visited,
             acc, daily, result, prev>>

ConcInit ==
    /\ world \in Worlds
    /\ extra = 0
    /\ Idle /\ Reset /\ prev = NoPrev
    /\ running = [i \in Invocations |-> IdleInvocation]
    /\ frames = [i \in Invocations |-> EmptyFrame]

\* A caller invokes a tool while the other invocation may be in flight.
ConcStart(i) ==
    /\ running[i].pc = "idle"
    /\ \E call \in ConcCalls : Put(i, Enter(call))
    /\ UNCHANGED <<world, extra, seqVars>>

\* Invocation i takes its next step.
ConcStep(i) ==
    /\ running[i].pc \notin {"idle", "done"}
    /\ LET X == Seen(i) IN
       /\ NeedsCall(X) /\ X.pc = "traverse" => X.api_calls < MaxCalls
       /\ \E outcome \in Outcomes(X) :
             /\ ~NeedsCall(X) => outcome = "ok"
             /\ Put(i, Step(world, X, outcome))
    /\ UNCHANGED <<world, extra, seqVars>>

\* The response of invocation i has gone to its caller.
ConcReturn(i) ==
    /\ running[i].pc = "done"
    /\ Put(i, IdleInvocation @@ EmptyFrame)
    /\ UNCHANGED <<world, extra, seqVars>>

ConcNext == \E i \in Invocations : ConcStart(i) \/ ConcStep(i) \/ ConcReturn(i)

ConcSpec == ConcInit /\ [][ConcNext]_vars

----------------------------------------------------------------------------
(* Properties *)

\* The store queries sent in this invocation.
FindCalls == {i \in 1..Len(calls) : calls[i].ep = "_find"}

QueryDone == tool = "query_tasks" /\ pc = "done"

\* C1: when an exact due date is supplied, the dueDate clause of the selector
\* sent to the store is exactly that date, whatever due_before/due_after are;
\* likewise the day clause for an exact scheduled date.
C1_ExactDateWins ==
    tool = "query_tasks" =>
        \A i \in FindCalls :
            LET sel == calls[i].body.selector IN
            /\ Truthy(req.due) =>
                  "dueDate" \in DOMAIN sel /\ sel["dueDate"] = Lit(req.due)
            /\ Truthy(req.scheduled) =>
                  "day" \in DOMAIN sel /\ sel["day"] = Lit(req.scheduled)

\* An exact due date given together with both bounds reached the store as an
\* exact-match clause.
C1_Witness ==
    /\ QueryDone /\ FindCalls /= {}
    /\ Truthy(req.due) /\ Truthy(req.due_before) /\ Truthy(req.due_after)
    /\ \A i \in FindCalls : calls[i].body.selector["dueDate"] = Lit(DateB)

CredentialAbsent(c) == \E k \in SettingNames : c[k] = ""

\* C2: with any one of the four store credentials absent, query_tasks ends in
\* a configuration error and sends no request at all, and find_docs raises
\* its configuration error before sending anything.
C2_NoCallWithoutCredentials ==
    (tool \in {"query_tasks", "find_docs"} /\ CredentialAbsent(client)) =>
        /\ calls = <<>>
        /\ pc = "done"
        /\ result.kind = "error"
        /\ result.exc = "ValueError"
        /\ result.message.text = "CouchDB credentials not configured"

\* query_tasks ended in the configuration error with only the password unset.
C2_Witness ==
    /\ QueryDone
    /\ client.db_password = "" /\ client.db_uri /= ""
    /\ client.db_name /= "" /\ client.db_user /= ""
    /\ Truthy(req.label)
    /\ result.kind = "error" /\ calls = <<>>

EnvName(k) ==
    CASE k = "db_uri" -> "AMAZING_MARVIN_DB_URI"
      [] k = "db_name" -> "_DB_NAME"
      [] k = "db_user" -> "_DB_USER"
      [] k = "db_password" -> "_DB_PASSWORD"

MissingSettings(c) == {EnvName(k) : k \in {j \in SettingNames : c[j] = ""}}

ConfigError == QueryDone /\ ~has_couchdb(client)

\* C3 as claimed: the configuration error of query_tasks names those and only
\* those store settings that are absent, and suggests get_all_tasks.
C3_NamesExactlyMissing ==
    ConfigError =>
        /\ result.kind = "error"
        /\ result.message.settings = MissingSettings(client)
        /\ result.message.fallback = "get_all_tasks"

\* C3 as amended: the configuration error of query_tasks names all four store
\* settings, whichever of them are absent, and suggests get_all_tasks.
C3_NamesAllFour ==
    ConfigError =>
        /\ result.kind = "error"
        /\ result.exc = "ValueError"
        /\ result.message.settings = {EnvName(k) : k \in SettingNames}
        /\ result.message.fallback = "get_all_tasks"
        /\ result.api_endpoint = "CouchDB _find"

\* The configuration error was returned with exactly one setting absent.
C3_Witness ==
    /\ ConfigError
    /\ Cardinality(MissingSettings(client)) = 1
    /\ Cardinality(result.message.settings) = 4

\* No label of the lookup has the given name, compared case-insensitively.
NoLabelNamed(name) ==
    \A i \in 1..Len(Labels) :
        lower(Spell(IF "title" \in DOMAIN Labels[i] THEN Labels[i].title ELSE ""))
            /= lower(Spell(name))

\* C4: a label name that matches no label of a successful lookup gives a
\* success result with an empty task list, total 0 and the no-label summary,
\* and the store query is never sent.
C4_LabelNotFound ==
    (/\ QueryDone /\ has_couchdb(client) /\ Truthy(req.label)
     /\ Len(calls) >= 1 /\ calls[1].ep = "/labels" /\ calls[1].outcome = "ok"
     /\ NoLabelNamed(req.label)) =>
        /\ result.kind = "success"
        /\ result.data.tasks = <<>>
        /\ result.data.total_tasks = 0
        /\ result.summary = <<"No label found matching", req.label>>
        /\ FindCalls = {}
        /\ Len(calls) = 1

\* The lookup answered and the name "home" matched none of its labels.
C4_Witness ==
    /\ QueryDone /\ req.label = "home"
    /\ Len(calls) = 1 /\ calls[1].outcome = "ok"
    /\ result.kind = "success" /\ result.data.total_tasks = 0

\* The field set a request with a field list asks for: the list plus "_id".
Wanted == Range(req.fields.list) \cup {"_id"}

ProjectionRequested ==
    /\ tool \in {"query_tasks", "get_all_tasks"}
    /\ TruthyList(req.fields)

\* Every store query sent carries the requested fields plus "_id".
AppliedFields ==
    tool = "query_tasks" =>
        \A i \in FindCalls :
            "fields" \in DOMAIN calls[i].body /\ calls[i].body.fields = Wanted

\* The result records the field set and no returned task has another field.
RecordedFields ==
    /\ "fields_returned" \in DOMAIN result.data
    /\ result.data.fields_returned = Wanted
    /\ \A i \in 1..Len(result.data.tasks) : DOMAIN result.data.tasks[i] \subseteq Wanted

C6_NoContainersInQuery ==
    (QueryDone /\ result.kind = "success") =>
        /\ \A i \in 1..Len(result.data.tasks) :
              ~IsContainerDoc(world, result.data.tasks[i]._id)
        /\ result.data.total_tasks = Len(result.data.tasks)

\* A traversal: get_all_tasks, or get_child_tasks with recursive=True.
TraversalRun ==
    \/ tool = "get_all_tasks"
    \/ tool = "get_child_tasks" /\ req.recursive

TraversalRoots ==
    IF tool = "get_all_tasks" THEN Range(req.roots) ELSE {req.parent_id}

ChildrenCalls == {i \in 1..Len(calls) : calls[i].ep = "/children"}

Fetched == {calls[i].parentId : i \in ChildrenCalls}

FetchedOk == {calls[i].parentId : i \in {j \in ChildrenCalls : calls[j].outcome = "ok"}}

\* The identifiers of the documents of a list, and a list without repeats.
Ids(docs) == {docs[i]._id : i \in 1..Len(docs)}
NoRepeat(docs) == Cardinality(Ids(docs)) = Len(docs)

\* C7: no traversal accumulates or returns a document whose type is
\* "project" or "category"; such children are only recursed into.
C7_NoContainersInTraversal ==
    TraversalRun =>
        /\ \A i \in 1..Len(acc) :
              /\ ~IsContainerDoc(world, acc[i]._id)
              /\ ~IsContainerType(acc[i])
        /\ (pc = "done" /\ result.kind = "success") =>
              \A i \in 1..Len(result.data.tasks) :
                  ~IsContainerDoc(world, result.data.tasks[i]._id)

\* A traversal from the project c2 met the category c1 among its children,
\* recursed into it and returned tasks.
C7_Witness ==
    /\ TraversalRun /\ pc = "done" /\ result.kind = "success"
    /\ world["c1"] = "c2"
    /\ \E i, j \in ChildrenCalls :
          /\ i < j /\ calls[i].parentId = "c2" /\ calls[j].parentId = "c1"
          /\ calls[i].outcome = "ok" /\ calls[j].outcome = "ok"
    /\ "t1" \in Ids(result.data.tasks)

\* No container's children are fetched twice in one traversal.
NoRefetch ==
    TraversalRun =>
        \A i, j \in ChildrenCalls : i /= j => calls[i].parentId /= calls[j].parentId

\* A traversal from a container that is its own child returns each of its
\* direct task children exactly once.
SelfLoopOnce ==
    (/\ tool = "get_child_tasks" /\ req.recursive /\ pc = "done"
     /\ req.parent_id \in Containers /\ world[req.parent_id] = req.parent_id
     /\ req.parent_id \in FetchedOk) =>
        /\ result.kind = "success"
        /\ \A t \in Tasks :
              Doc(world, t).parentId = req.parent_id =>
                  Cardinality({i \in 1..Len(result.data.tasks) :
                                  result.data.tasks[i]._id = t}) = 1

\* C8: a traversal terminates on every container graph, cyclic ones included;
\* no container's children are fetched twice, and a traversal from a container
\* that contains itself returns each of its direct task children exactly once.
C8_TraversalTerminates ==
    /\ [](NoRefetch /\ SelfLoopOnce)
    /\ (TraversalRun /\ pc = "traverse") ~> (pc = "done")

\* The traversal from c2, whose children list holds c2 itself, ended after
\* one fetch with c2's two tasks.
C8_Witness ==
    /\ tool = "get_child_tasks" /\ req.recursive /\ pc = "done"
    /\ world["c2"] = "c2" /\ world["c1"] /= "c2" /\ req.parent_id = "c2"
    /\ Len(calls) = 1 /\ calls[1].outcome = "ok"
    /\ Ids(result.data.tasks) = {"t2", "t3"} /\ Len(result.data.tasks) = 2

\* The containers reachable from the set S by following children.
RECURSIVE Reach(_, _)
Reach(w, S) ==
    LET more == S \cup {d \in Containers : w[d] \in S}
    IN IF more = S THEN S ELSE Reach(w, more)

\* No container is among its own descendants.
Acyclic(w) == \A c \in Containers : c \notin Reach(w, {d \in Containers : w[d] = c})

TasksUnder(w, S) == {t \in Tasks : Doc(w, t).parentId \in S}

\* Root -> [TaskA, ProjectP -> [TaskB, TaskC]] with Root = c1, P = c2.
ScenarioTree == world = [c1 |-> Unassigned, c2 |-> "c1"]

\* C9: on an acyclic container tree whose fetches all succeed, the aggregation
\* returns exactly the tasks reachable from the roots, once each, and reports
\* as call count the number of containers whose children were fetched; for
\* Root -> [TaskA, ProjectP -> [TaskB, TaskC]] that is {TaskA, TaskB, TaskC}
\* with call count 2.
C9_AggregateExact ==
    (/\ tool = "get_all_tasks" /\ pc = "done" /\ Acyclic(world)
     /\ \A i \in ChildrenCalls : calls[i].outcome = "ok") =>
        /\ result.kind = "success"
        /\ Ids(result.data.tasks) = TasksUnder(world, Reach(world, Range(req.roots)))
        /\ NoRepeat(result.data.tasks)
        /\ result.data.total_tasks = Len(result.data.tasks)
        /\ result.data.api_calls_made = Cardinality(Fetched)
        /\ result.api_calls_made = Cardinality(Fetched)
        /\ Fetched = Reach(world, Range(req.roots))
        /\ (ScenarioTree /\ req.roots = <<"c1">>) =>
              /\ Ids(result.data.tasks) = {"t1", "t2", "t3"}
              /\ result.data.api_calls_made = 2

\* The scenario tree was aggregated from its root.
C9_Witness ==
    /\ tool = "get_all_tasks" /\ pc = "done" /\ ScenarioTree
    /\ req.roots = <<"c1">> /\ req.fields = NoneList
    /\ \A i \in ChildrenCalls : calls[i].outcome = "ok"
    /\ Ids(result.data.tasks) = {"t1", "t2", "t3"}
    /\ result.api_calls_made = 2

\* C10: a failed children fetch (not-found or any other failure) empties only
\* that subtree: the traversal still ends in a success result, every root and
\* every sub-container of a fetched container is still fetched, and the result
\* holds exactly the tasks of the containers whose fetch succeeded.
C10_FailureAbsorbed ==
    (TraversalRun /\ pc = "done") =>
        /\ result.kind = "success"
        /\ TraversalRoots \subseteq Fetched
        /\ \A d \in Containers : world[d] \in FetchedOk => d \in Fetched
        /\ Ids(result.data.tasks) = TasksUnder(world, FetchedOk)
        /\ NoRepeat(result.data.tasks)

\* The fetch of c1 failed, the fetch of its sibling c2 followed and succeeded,
\* and c2's tasks were returned.
C10_Witness ==
    /\ tool = "get_all_tasks" /\ pc = "done" /\ result.kind = "success"
    /\ req.roots = <<"c1", "c2">>
    /\ Len(calls) = 2
    /\ calls[1].parentId = "c1" /\ calls[1].outcome = "fail"
    /\ calls[2].parentId = "c2" /\ calls[2].outcome = "ok"
    /\ Ids(result.data.tasks) = {"t2", "t3"}

\* C20: every selector query_tasks sends holds the base clause db = "Tasks",
\* and holds the clause done != true exactly when include_done is not set,
\* whatever the other filter parameters are.
C20_BaseAndDoneClauses ==
    tool = "query_tasks" =>
        \A i \in FindCalls :
            LET sel == calls[i].body.selector IN
            /\ "db" \in DOMAIN sel /\ sel["db"] = Lit("Tasks")
            /\ "done" \in DOMAIN sel <=> ~req.include_done
            /\ "done" \in DOMAIN sel => sel["done"] = Ops("$ne" :> TRUE)

\* A query with include_done set and a parent filter sent a selector holding
\* the base clause and no completion clause.
C20_Witness ==
    /\ QueryDone /\ FindCalls /= {}
    /\ req.include_done /\ Truthy(req.parent_id)
    /\ \A i \in FindCalls :
          /\ calls[i].body.selector["db"] = Lit("Tasks")
          /\ "done" \notin DOMAIN calls[i].body.selector
          /\ "parentId" \in DOMAIN calls[i].body.selector

\* The endpoint name under which a handler reports an upstream request.
EndpointLabel(ep) == IF ep = "_find" THEN "CouchDB _find" ELSE ep

\* C15: an error response names the endpoint of the request that was being
\* attempted when the failure occurred, i.e. of the last request sent; an
\* error of query_tasks raised by the label lookup names the labels endpoint.
C15_ErrorNamesAttemptedEndpoint ==
    (pc = "done" /\ result.kind = "error" /\ calls /= <<>>) =>
        result.api_endpoint = EndpointLabel(calls[Len(calls)].ep)

\* An upstream request without its outcome and response.
Request(c) == Restrict(c, DOMAIN c \ {"outcome", "response"})

\* C16 (as stated): within one invocation no request is sent twice, failed or
\* not, and a failed request either ends the invocation in an error response
\* or is absorbed into a success response.
C16_NoRetry ==
    /\ \A i, j \in 1..Len(calls) : i < j => Request(calls[i]) /= Request(calls[j])
    /\ pc = "done" =>
          \A i \in 1..Len(calls) :
              calls[i].outcome /= "ok" =>
                  \/ result.kind = "error" /\ i = Len(calls)
                  \/ result.kind = "success"

\* How often the handler's input asks for the request c: once, except that
\* batch_mark_done asks for a mark-done request once per position at which
\* its list names the identifier.
Demanded(c) ==
    IF tool = "batch_mark_done"
    THEN Cardinality({k \in 1..Len(req.task_ids) : req.task_ids[k] = c.itemId})
    ELSE 1

\* C16 (as amended): within one invocation no request is sent more often
\* than the input asks for it -- a failed request is never re-issued, and a
\* request is repeated only where batch_mark_done's list names an identifier
\* more than once -- and a failed request either ends the invocation in an
\* error response or is absorbed into a success response.
C16_NoRetryPerInput ==
    /\ \A i \in 1..Len(calls) :
          Cardinality({j \in 1..Len(calls) : Request(calls[j]) = Request(calls[i])})
              <= Demanded(calls[i])
    /\ pc = "done" =>
          \A i \in 1..Len(calls) :
              calls[i].outcome /= "ok" =>
                  \/ result.kind = "error" /\ i = Len(calls)
                  \/ result.kind = "success"

\* The store query of a labelled query_tasks failed after the label lookup
\* succeeded; it was sent once and the invocation ended in an error.
C16_Witness ==
    /\ QueryDone /\ result.kind = "error"
    /\ Len(calls) = 2
    /\ calls[1].ep = "/labels" /\ calls[1].outcome = "ok"
    /\ calls[2].ep = "_find" /\ calls[2].outcome = "fail"

RangeDone == RangeRun /\ pc = "done"

\* The per-day requests sent so far, and those among them that succeeded.
DayCalls == {i \in 1..Len(calls) : calls[i].ep = "/doneItems"}
DayCallsOk == {i \in DayCalls : calls[i].outcome = "ok"}

\* The number of items the upstream holds for the days fetched successfully.
RECURSIVE ItemsOn(_)
ItemsOn(S) ==
    IF S = {} THEN 0
    ELSE LET i == CHOOSE j \in S : TRUE
         IN Len(DoneItems(calls[i].date)) + ItemsOn(S \ {i})

\* The calendar days of the range a request asks for: the explicit dates win
\* over the day count, and a start date alone runs to today.
ExpectedDays(r) ==
    IF Truthy(r.start_date)
    THEN {d \in Range(Calendar) :
             /\ DayNo(r.start_date) <= DayNo(d)
             /\ DayNo(d) <= DayNo(IF Truthy(r.end_date) THEN r.end_date ELSE Today)}
    ELSE {d \in Range(Calendar) :
             /\ DayNo(d) <= DayNo(Today)
             /\ DayNo(d) > DayNo(Today) - (IF TruthyInt(r.days) THEN r.days.int ELSE 7)}

\* C11: in a range summary a failed per-day fetch is absorbed for that day
\* only: the summary still ends in a success result with one entry per day of
\* the range, the failed day counts zero items and carries the warning, every
\* other day holds its items, and the total is the sum over the days fetched
\* successfully.
C11_DayFailureAbsorbed ==
    RangeDone =>
        /\ result.kind = "success"
        /\ {calls[i].date : i \in DayCalls} = ExpectedDays(req)
        /\ Len(result.data.daily) = Len(calls)
        /\ \A i \in 1..Len(calls) :
              LET e == result.data.daily[i] IN
              /\ e.date = calls[i].date
              /\ IF calls[i].outcome = "ok"
                 THEN e.completed_count = Len(DoneItems(e.date)) /\ ~e.warning
                 ELSE e.completed_count = 0 /\ e.warning
        /\ result.data.total_completed = ItemsOn(DayCallsOk)

\* The 3-day range 2024-01-01..2024-01-03 with the second day failing: data
\* for days 1 and 3, zero and a warning for day 2, total 1 + 4.
C11_Witness ==
    /\ RangeDone /\ result.kind = "success"
    /\ req.start_date = DateA /\ req.end_date = DateC
    /\ Len(calls) = 3 /\ calls[2].outcome = "fail"
    /\ result.data.daily[1].completed_count = 1
    /\ result.data.daily[2].completed_count = 0 /\ result.data.daily[2].warning
    /\ result.data.daily[3].completed_count = 4
    /\ result.data.total_completed = 5

\* C12: the api_calls_made a range summary reports is the number of calendar
\* days of its range, which is the number of per-day requests it sent.
C12_ReportedCallsAreDays ==
    (RangeDone /\ result.kind = "success") =>
        /\ result.api_calls_made = Cardinality(ExpectedDays(req))
        /\ result.api_calls_made = Cardinality(DayCalls)

\* C13: the days a range summary fetches are those of the explicit dates when
\* a start date is given (to today when the end date is absent), whatever the
\* day count, else the last `days` days; each day of the range is requested
\* exactly once, oldest first, and no other day is requested.
C13_RangeFromDates ==
    RangeRun =>
        /\ \A i \in DayCalls : calls[i].date \in ExpectedDays(req)
        /\ \A i, j \in DayCalls : i < j => DayNo(calls[i].date) < DayNo(calls[j].date)
        /\ pc = "done" =>
              \A d \in ExpectedDays(req) :
                  Cardinality({i \in DayCalls : calls[i].date = d}) = 1

\* A summary asked for with days = 1 and the dates 2024-01-01..2024-01-02
\* fetched those two days.
C13_Witness ==
    /\ RangeDone /\ req.days = IntOf(1)
    /\ req.start_date = DateA /\ req.end_date = DateB
    /\ Len(calls) = 2
    /\ calls[1].date = DateA /\ calls[2].date = DateB

\* An item without a parent: the reference is missing, null, empty or the
\* sentinel.
NoParent(item) ==
    \/ "parentId" \notin DOMAIN item
    \/ item.parentId \in {NoneStr, "", Unassigned}

CompletedDone ==
    tool = "get_completed_tasks_for_date" /\ pc = "done" /\ result.kind = "success"

RECURSIVE GroupSizes(_, _)
GroupSizes(groups, keys) ==
    IF keys = {} THEN 0
    ELSE LET k == CHOOSE x \in keys : TRUE
         IN Len(groups[k]) + GroupSizes(groups, keys \ {k})

\* C14: get_completed_tasks_for_date partitions the completed items: an item
\* without a parent is in the unassigned bucket and in no group, any other
\* item is in the group of its parent and in no other; total_completed is
\* unassigned_count plus the group sizes, and project_count is the number of
\* distinct parents of the grouped items.
C14_PartitionByParent ==
    CompletedDone =>
        LET d == result.data
            items == d.all_completed
            groups == d.completed_by_project
            InGroup(it, k) == \E i \in 1..Len(groups[k]) : groups[k][i] = it
            InUnassigned(it) ==
                \E i \in 1..Len(d.unassigned_completed) : d.unassigned_completed[i] = it
        IN /\ \A n \in 1..Len(items) :
                 LET it == items[n] IN
                 IF NoParent(it)
                 THEN InUnassigned(it) /\ \A k \in DOMAIN groups : ~InGroup(it, k)
                 ELSE /\ ~InUnassigned(it)
                      /\ \A k \in DOMAIN groups : InGroup(it, k) <=> k = it.parentId
           /\ d.total_completed = d.unassigned_count + GroupSizes(groups, DOMAIN groups)
           /\ d.unassigned_count = Len(d.unassigned_completed)
           /\ d.project_count =
                 Cardinality({items[n].parentId : n \in {m \in 1..Len(items) : ~NoParent(items[m])}})

\* The response at hand is a task list and the caller kept the one before.
SecondResponse ==
    /\ tool \in {"query_tasks", "get_all_tasks"}
    /\ pc = "done" /\ result.kind = "success" /\ prev /= NoPrev

\* The upstream answered every request that both invocations sent in the
\* same way.
SameAnswers ==
    \A i \in 1..Len(prev.calls), j \in 1..Len(calls) :
        Request(prev.calls[i]) = Request(calls[j]) =>
            prev.calls[i].outcome = calls[j].outcome

AllOk(log) == \A i \in 1..Len(log) : log[i].outcome = "ok"

\* get_all_tasks over every container, then query_tasks asking the store for
\* the same projection, every request of both answered.
BothPaths ==
    /\ extra = 0
    /\ SecondResponse /\ tool = "query_tasks" /\ prev.tool = "get_all_tasks"
    /\ req.fields = prev.req.fields /\ req.label = prev.req.label
    /\ AllOk(prev.calls) /\ AllOk(calls)

\* C18: for the same upstream state, label filter and field projection the
\* traversal path and the store path return the same set of task
\* identifiers and the same fields_returned, and neither returns a container
\* document.
C18_PathsAgree ==
    BothPaths =>
        /\ Ids(result.data.tasks) = prev.ids
        /\ prev.fields_returned =
              (IF "fields_returned" \in DOMAIN result.data
               THEN {result.data.fields_returned} ELSE {})
        /\ \A id \in Ids(result.data.tasks) \cup prev.ids : ~IsContainerDoc(world, id)

\* The call that invocation i was made with.
CallOf(i) ==
    [tool |-> running[i].tool, settings |-> running[i].settings, req |-> running[i].req]

RangeClauseOk(sel, key, before, after) ==
    IF ~Truthy(before) /\ ~Truthy(after)
    THEN key \notin DOMAIN sel
    ELSE /\ key \in DOMAIN sel
         /\ DOMAIN sel[key] = {"ops"}
         /\ DOMAIN sel[key].ops =
               (IF Truthy(before) THEN {"$lte"} ELSE {})
               \cup (IF Truthy(after) THEN {"$gte"} ELSE {})
         /\ Truthy(before) => sel[key].ops["$lte"] = before
         /\ Truthy(after) => sel[key].ops["$gte"] = after

\* C21: without an exact date, the selector's clause for a date dimension
\* holds "$lte" exactly when the before bound is given and "$gte" exactly when
\* the after bound is given, and there is no clause when neither is; the
\* dueDate clause depends on the due parameters only and the day clause on
\* the scheduled parameters only.
C21_RangeClauses ==
    tool = "query_tasks" =>
        \A i \in FindCalls :
            LET sel == calls[i].body.selector IN
            /\ ~Truthy(req.due) =>
                  RangeClauseOk(sel, "dueDate", req.due_before, req.due_after)
            /\ ~Truthy(req.scheduled) =>
                  RangeClauseOk(sel, "day", req.scheduled_before, req.scheduled_after)

\* A query with both due bounds and only the scheduled before bound sent a
\* two-sided dueDate clause and a one-sided day clause.
C21_Witness ==
    /\ QueryDone /\ FindCalls /= {}
    /\ ~Truthy(req.due) /\ ~Truthy(req.scheduled)
    /\ Truthy(req.due_before) /\ Truthy(req.due_after)
    /\ Truthy(req.scheduled_before) /\ ~Truthy(req.scheduled_after)
    /\ \A i \in FindCalls :
          /\ calls[i].body.selector["dueDate"] = Ops(("$gte" :> DateA) @@ ("$lte" :> DateC))
          /\ calls[i].body.selector["day"] = Ops("$lte" :> DateC)

\* C22: is_starred true puts the clause isStarred = 1 into the selector,
\* is_starred false the clause isStarred = 0, is_starred unset no clause; the
\* value is the integer 0 or 1. A parent identifier, when given, puts the
\* exact-match clause parentId = that identifier, and none otherwise.
C22_StarredAndParent ==
    tool = "query_tasks" =>
        \A i \in FindCalls :
            LET sel == calls[i].body.selector IN
            /\ req.is_starred = "True" =>
                  "isStarred" \in DOMAIN sel /\ sel["isStarred"] = Lit(1)
            /\ req.is_starred = "False" =>
                  "isStarred" \in DOMAIN sel /\ sel["isStarred"] = Lit(0)
            /\ req.is_starred = NoneStr => "isStarred" \notin DOMAIN sel
            /\ "isStarred" \in DOMAIN sel => sel["isStarred"].lit \in {0, 1}
            /\ IF Truthy(req.parent_id)
               THEN "parentId" \in DOMAIN sel /\ sel["parentId"] = Lit(req.parent_id)
               ELSE "parentId" \notin DOMAIN sel

\* A query with is_starred = false and a parent sent both exact-match
\* clauses, the starred one with the integer 0.
C22_Witness ==
    /\ QueryDone /\ FindCalls /= {}
    /\ req.is_starred = "False" /\ req.parent_id = "c2"
    /\ \A i \in FindCalls :
          /\ calls[i].body.selector["isStarred"] = Lit(0)
          /\ calls[i].body.selector["parentId"] = Lit("c2")

\* The sequence s occurs in the sequence text.
HasSub(text, s) ==
    \E start \in 1..(Len(text) - Len(s) + 1) :
        SubSeq(text, start, start + Len(s) - 1) = s

\* The stored document id holds the substring in its title or its note,
\* letter case ignored, every character of the substring taken as itself.
ContainsText(w, id, sub) ==
    LET d == Doc(w, id) IN
    \/ "title" \in DOMAIN d /\ HasSub(lower(Spell(d.title)), lower(Spell(sub)))
    \/ "note" \in DOMAIN d /\ HasSub(lower(Spell(d.note)), lower(Spell(sub)))

\* The selector keys a request's filters call for.
ExpectedKeys(r) ==
    {"db"}
    \cup (IF r.include_done THEN {} ELSE {"done"})
    \cup (IF Truthy(r.label) THEN {"labelIds"} ELSE {})
    \cup (IF Truthy(r.contains) THEN {"$or"} ELSE {})
    \cup (IF Truthy(r.due) \/ Truthy(r.due_before) \/ Truthy(r.due_after)
          THEN {"dueDate"} ELSE {})
    \cup (IF Truthy(r.scheduled) \/ Truthy(r.scheduled_before) \/ Truthy(r.scheduled_after)
          THEN {"day"} ELSE {})
    \cup (IF Truthy(r.parent_id) THEN {"parentId"} ELSE {})
    \cup (IF r.is_starred /= NoneStr THEN {"isStarred"} ELSE {})

\* C23: with a text substring the selector holds one disjunction of two
\* case-insensitive pattern matches, on title and on note, next to the
\* clauses of all the other filters given; the store then returns exactly
\* the documents that satisfy the other clauses and hold the substring,
\* taken literally and letter case ignored, in their title or note.
C23_TextSearch ==
    tool = "query_tasks" =>
        \A i \in FindCalls :
            LET body == calls[i].body
                sel == body.selector
                others == [body EXCEPT !.selector = Restrict(sel, DOMAIN sel \ {"$or"})]
            IN /\ DOMAIN sel = ExpectedKeys(req)
               /\ Truthy(req.contains) =>
                     /\ Len(sel["$or"].alts) = 2
                     /\ DOMAIN sel["$or"].alts[1] = {"title"}
                     /\ DOMAIN sel["$or"].alts[2] = {"note"}
                     /\ DOMAIN sel["$or"].alts[1]["title"].ops = {"$regex"}
                     /\ sel["$or"].alts[2]["note"] = sel["$or"].alts[1]["title"]
                     /\ SubSeq(sel["$or"].alts[1]["title"].ops["$regex"], 1, 4) = FlagI
                     /\ Ids(StoreFind(world, body)) =
                           {id \in Ids(StoreFind(world, others)) :
                               ContainsText(world, id, req.contains)}

\* A search for "a.c" over completed tasks too returned t2, whose note is
\* "a.c", and not t3, whose title is "abc".
C23_Witness ==
    /\ QueryDone /\ result.kind = "success"
    /\ req.contains = "a.c" /\ req.include_done
    /\ Ids(result.data.tasks) = {"t2"}
    /\ \A i \in FindCalls : DOMAIN calls[i].body.selector = {"db", "$or"}

LabelCalls == {i \in 1..Len(calls) : calls[i].ep = "/labels"}

\* The identifier of the first label, in lookup order, whose title is the
\* name up to letter case.
FirstLabelId(name) ==
    LET same == {k \in 1..Len(Labels) :
                    /\ "title" \in DOMAIN Labels[k]
                    /\ lower(Spell(Labels[k].title)) = lower(Spell(name))}
    IN Labels[CHOOSE k \in same : \A j \in same : k <= j]._id

\* C24: query_tasks with a label filter sends the label lookup once, as its
\* first request, and the store query only after the lookup has answered;
\* the labelIds clause of the store query carries the identifier of the first
\* label whose title equals the name up to letter case, never the name.
\* Without a label filter no lookup is sent.
C24_LabelResolvedFirst ==
    tool = "query_tasks" =>
        /\ Cardinality(LabelCalls) <= 1
        /\ ~Truthy(req.label) => LabelCalls = {}
        /\ (Truthy(req.label) /\ calls /= <<>>) => LabelCalls = {1}
        /\ \A i \in FindCalls :
              Truthy(req.label) =>
                  /\ i = 2 /\ calls[1].outcome = "ok"
                  /\ calls[i].body.selector["labelIds"] =
                        Ops("$elemMatch" :> Ops("$eq" :> FirstLabelId(req.label)))
                  /\ FirstLabelId(req.label) /= req.label

\* The label "WORK" was looked up, matched "Work" (l1) before "work" (l2),
\* and the store query carried l1.
C24_Witness ==
    /\ QueryDone /\ req.label = "WORK"
    /\ Len(calls) = 2 /\ calls[1].ep = "/labels" /\ calls[2].ep = "_find"
    /\ calls[2].body.selector["labelIds"] = Ops("$elemMatch" :> Ops("$eq" :> "l1"))

\* C25: the call count a successful query_tasks reports is the number of
\* upstream requests it sent: 1 without a label (the store query), 2 with a
\* label that was resolved (lookup and store query), 1 with a label that was
\* not found (lookup only).
C25_ReportedCallsAreCalls ==
    (QueryDone /\ result.kind = "success") =>
        /\ result.api_calls_made = Len(calls)
        /\ ~Truthy(req.label) =>
              result.api_calls_made = 1 /\ calls[1].ep = "_find"
        /\ (Truthy(req.label) /\ ~NoLabelNamed(req.label)) =>
              /\ result.api_calls_made = 2
              /\ calls[1].ep = "/labels" /\ calls[2].ep = "_find"
        /\ (Truthy(req.label) /\ NoLabelNamed(req.label)) =>
              result.api_calls_made = 1 /\ calls[1].ep = "/labels"

\* A labelled query reported two calls, an unlabelled one would report one.
C25_Witness ==
    /\ QueryDone /\ result.kind = "success"
    /\ Truthy(req.label) /\ Len(calls) = 2
    /\ result.api_calls_made = 2

\* The stored documents a selector matches, however many the store returns.
Matching(selector) ==
    {d \in Range(AllDocs(extra)) : Match(selector, Doc(world, d))}

\* C29: query_tasks sends the store query at most once, and exactly once
\* when it answers from the store; the query carries the cap 500 and nothing
\* that asks for a further page, so a successful result holds at most 500
\* tasks however many stored documents match.
C29_OneCappedQuery ==
    tool = "query_tasks" =>
        /\ Cardinality(FindCalls) <= 1
        /\ \A i \in FindCalls :
              /\ calls[i].body.limit = 500
              /\ DOMAIN calls[i].body \subseteq {"selector", "limit", "fields"}
        /\ (QueryDone /\ result.kind = "success") =>
              /\ Len(result.data.tasks) <= 500
              /\ result.data.total_tasks <= 500
              /\ "source" \in DOMAIN result.data => Cardinality(FindCalls) = 1

\* More than 500 stored documents matched; one query was sent and the
\* result holds the tasks among the first 500 of them.
C29_Witness ==
    /\ QueryDone /\ result.kind = "success"
    /\ Cardinality(FindCalls) = 1
    /\ \A i \in FindCalls : Cardinality(Matching(calls[i].body.selector)) > 500
    /\ Len(result.data.tasks) \in 499..500

CreateRun == tool = "create_task"

\* The parent create_task was asked for: the project if one is given, else
\* the category.
AskedParent ==
    CASE req.project_id \notin {NoneStr, ""} -> req.project_id
      [] req.category_id \notin {NoneStr, ""} -> req.category_id
      [] OTHER -> NoneStr

\* The task as /addTask answered it, if it did.
Answered == IF "response" \in DOMAIN calls[1] THEN calls[1].response ELSE <<>>

\* The conditions under which the parent reference has to be fixed: a parent
\* was asked for, the answered task has an identifier, and its parent
\* reference is another one or missing.
FixupDue ==
    /\ calls[1].outcome = "ok"
    /\ AskedParent /= NoneStr
    /\ "_id" \in DOMAIN Answered
    /\ ("parentId" \in DOMAIN Answered => Answered.parentId /= AskedParent)

UpdateCalls == {i \in 1..Len(calls) : calls[i].ep = "/doc/update"}

\* C27: create_task sends /addTask first and exactly once; once it has
\* returned, a parent update has been sent after it only if the fix-up was
\* due and, whenever the fix-up was due, update_doc was called: its request
\* is the second one, or it raised for the missing token before sending.  A
\* success with a requested parent and a task identifier returns the task
\* with that parent, the project before the category.
C27_AddThenFixup ==
    CreateRun =>
        /\ Len(calls) \in {1, 2}
        /\ calls[1].ep = "/addTask"
        /\ \A i \in 2..Len(calls) : calls[i].ep = "/doc/update"
        /\ pc = "fixup" => Len(calls) = 1 /\ FixupDue
        /\ pc = "done" =>
              /\ UpdateCalls /= {} =>
                    /\ FixupDue
                    /\ calls[2].itemId = Answered["_id"]
                    /\ calls[2].setters = <<[key |-> "parentId", val |-> AskedParent]>>
              /\ FixupDue =>
                    \/ UpdateCalls = {2}
                    \/ /\ client.full_access_token = "" /\ UpdateCalls = {}
                       /\ result.kind = "error" /\ result.exc = "ValueError"
              /\ (result.kind = "success" /\ AskedParent /= NoneStr
                     /\ "_id" \in DOMAIN Answered) =>
                    /\ result.data.created_task.parentId = AskedParent
                    /\ Truthy(req.project_id) =>
                          result.data.created_task.parentId = req.project_id

\* Project c2 and category c1 were both asked for, /addTask answered with the
\* category as parent, the update was sent second and the task went back
\* with parent c2.
C27_Witness ==
    /\ CreateRun /\ pc = "done" /\ result.kind = "success"
    /\ req.project_id = "c2" /\ req.category_id = "c1"
    /\ Len(calls) = 2 /\ calls[2].ep = "/doc/update"
    /\ get(calls[1].response, "parentId") = "c1"
    /\ result.data.created_task.parentId = "c2"

\* The tasks this invocation has created upstream and not deleted again.
LeftUpstream ==
    {calls[i].response["_id"] :
        i \in {j \in 1..Len(calls) : /\ calls[j].ep = "/addTask"
                                      /\ calls[j].outcome = "ok"
                                      /\ "_id" \in DOMAIN calls[j].response}}
    \ {calls[i].itemId :
        i \in {j \in 1..Len(calls) : /\ calls[j].ep \in {"/doc/delete", "/deleteItem"}
                                      /\ calls[j].outcome = "ok"}}

\* The fix-up was due and failed: the token is missing, or the update
\* request was refused.
FixupFailed ==
    /\ CreateRun /\ pc = "done" /\ FixupDue
    /\ \/ client.full_access_token = ""
       \/ \E i \in UpdateCalls : calls[i].outcome /= "ok"

\* C28: when /addTask succeeded and the parent fix-up fails, create_task
\* answers with an error naming /addTask while the task it created is left
\* upstream: nothing is sent after the failure, in particular no delete.
\* With the token missing the fix-up fails before any request is sent.
C28_NotAtomic ==
    FixupFailed =>
        /\ result.kind = "error" /\ result.api_endpoint = "/addTask"
        /\ LeftUpstream = {Answered["_id"]}
        /\ \A i \in 1..Len(calls) : calls[i].ep \in {"/addTask", "/doc/update"}
        /\ client.full_access_token = "" =>
              /\ Len(calls) = 1
              /\ result.exc = "ValueError"
        /\ client.full_access_token /= "" =>
              /\ Len(calls) = 2 /\ calls[2].outcome /= "ok"
              /\ result.exc = "HTTPError"

\* /addTask created n1 without the requested parent, the token is missing:
\* an error went back after the one request, and n1 is left upstream.
C28_Witness ==
    /\ FixupFailed /\ client.full_access_token = ""
    /\ Len(calls) = 1 /\ calls[1].outcome = "ok"
    /\ result.kind = "error" /\ LeftUpstream = {"n1"}

\* The same with the token set and the update refused.
C28_UpdateRefused ==
    /\ FixupFailed /\ client.full_access_token = "tok"
    /\ Len(calls) = 2 /\ calls[2].outcome = "fail"
    /\ result.kind = "error" /\ LeftUpstream = {"n1"}

BatchDone == tool = "batch_mark_done" /\ pc = "done"

\* The k-th smallest member of a set of positions.
Nth(P, k) == CHOOSE p \in P : Cardinality({q \in P : q < p}) = k - 1

\* C26: batch_mark_done sends exactly one mark-done request per requested
\* identifier, in list order, whether or not earlier ones failed; the
\* response is a success in which completed_tasks and failed_tasks hold, in
\* order, the positions whose request succeeded and failed, so that
\* success_count + failure_count = total_requested = the length of the list.
C26_BatchAccounting ==
    BatchDone =>
        LET ids == req.task_ids
            d == result.data
            failed == {k \in 1..Len(calls) : calls[k].outcome /= "ok"}
            passed == {k \in 1..Len(calls) : calls[k].outcome = "ok"}
        IN /\ Len(calls) = Len(ids)
           /\ \A k \in 1..Len(ids) :
                 calls[k].ep = "/markDone" /\ calls[k].itemId = ids[k]
           /\ result.kind = "success"
           /\ d.total_requested = Len(ids)
           /\ d.success_count = Len(d.completed_tasks)
           /\ d.failure_count = Len(d.failed_tasks)
           /\ d.success_count + d.failure_count = d.total_requested
           /\ Len(d.failed_tasks) = Cardinality(failed)
           /\ \A j \in 1..Len(d.failed_tasks) :
                 d.failed_tasks[j].task_id = ids[Nth(failed, j)]
           /\ Len(d.completed_tasks) = Cardinality(passed)
           /\ \A j \in 1..Len(d.completed_tasks) :
                 d.completed_tasks[j]._id = ids[Nth(passed, j)]
           /\ result.api_calls_made = Len(calls)

\* Of three identifiers the second failed; the third was still sent and
\* completed.
C26_Witness ==
    /\ BatchDone /\ req.task_ids = <<"t1", "t2", "t3">>
    /\ Len(calls) = 3
    /\ calls[2].outcome = "fail" /\ calls[3].outcome = "ok"
    /\ result.data.failure_count = 1 /\ result.data.success_count = 2
    /\ result.data.failed_tasks[1].task_id = "t2"

FlatDone == tool = "get_child_tasks" /\ pc = "done" /\ ~req.recursive

\* The number of positions of the list s that hold the document d.
Occurrences(s, d) == Cardinality({i \in 1..Len(s) : s[i] = d})

\* The type a document states, if it states one.
StatedType(c) == IF "type" \in DOMAIN c THEN c.type ELSE NoneStr

\* C30: non-recursive get_child_tasks sends exactly one children request;
\* on success every child it received is in exactly one of the lists tasks
\* and projects, in projects if and only if its type is "project" (a
\* category child is in tasks), task_count + project_count = total_children,
\* and the recursive flag is false.
C30_FlatPartition ==
    FlatDone =>
        /\ Len(calls) = 1 /\ calls[1].ep = "/children"
        /\ calls[1].parentId = req.parent_id
        /\ result.kind = "success" =>
              LET d == result.data
                  children == IF calls[1].outcome = "ok"
                              THEN StoreChildren(world, req.parent_id) ELSE <<>>
              IN /\ d.all_children = children
                 /\ d.total_children = Len(children)
                 /\ \A i \in 1..Len(children) :
                       LET c == children[i] IN
                       /\ Occurrences(d.tasks, c) + Occurrences(d.projects, c) = 1
                       /\ Occurrences(d.projects, c) = 1 <=> StatedType(c) = "project"
                       /\ StatedType(c) = "category" => Occurrences(d.tasks, c) = 1
                 /\ Len(d.tasks) + Len(d.projects) = Len(children)
                 /\ d.task_count = Len(d.tasks) /\ d.project_count = Len(d.projects)
                 /\ d.task_count + d.project_count = d.total_children
                 /\ d.recursive = FALSE
                 /\ result.api_calls_made = 1

\* The children of c2 were the category c1 and two documents without a type:
\* all three went to tasks.
C30_Witness ==
    /\ FlatDone /\ result.kind = "success"
    /\ \E i \in 1..Len(result.data.tasks) : StatedType(result.data.tasks[i]) = "category"
    /\ \E i \in 1..Len(result.data.tasks) : StatedType(result.data.tasks[i]) = NoneStr
    /\ result.data.project_count = 0 /\ result.data.total_children = 3

\* The children of c1 held the project c2, which went to projects.
C30_ProjectChild ==
    /\ FlatDone /\ result.kind = "success"
    /\ result.data.project_count = 1 /\ result.data.task_count >= 1

\* The sequential handler always takes its next step.
FairSpec == Spec /\ WF_vars(TraverseStep) /\ WF_vars(TraverseDone)

====
